---- MODULE Spec2Model ----
(***************************************************************************)
(* AgentShield: the Safe Authorization Facade (SafeFacilitator), the       *)
(* Authorization Signer (CronosFacilitator) and the validation pipeline of *)
(* SafeCryptoComAgent, as state machines.                                  *)
(*                                                                         *)
(* Python values are modelled as follows.  A dict is a record of its       *)
(* possible keys, each an option: <<>> when the key is absent, <<v>> when  *)
(* it holds v.  A str that the code inspects character by character is a   *)
(* sequence of one-character strings; a str the code only passes around or *)
(* formats is a sequence of fragments.  An address is a record of the      *)
(* 20-byte value it denotes (id) and the letter case it is written in      *)
(* (form).                                                                 *)
(***************************************************************************)
EXTENDS Integers, Sequences, FiniteSets, TLC

VARIABLES
    \* ---- SafeFacilitator (src/agentshield/facilitators/__init__.py)
    private_key,     \* self.private_key
    network,         \* self.network (also self.facilitator.network)
    heap,            \* the context dicts, by reference
    callPc,          \* per call: "idle", "awaiting", "returned", "raised"
    callArgs,        \* per call: the arguments it was entered with
    callCtxBefore,   \* per call: the entries of the caller's dict on entry
    callValidation,  \* per call: the arguments handed to validate_transaction
    callSigner,      \* per call: the signer invocations it made
    callResult,      \* per call: what it returned or raised
    \* ---- SafeCryptoComAgent (src/agentshield/integrations/crypto_com_agent.py)
    policy_engine,   \* self.policy_engine: "PolicyEngine" or "None"
    llm_judge,       \* self.llm_judge: "LLMJudge" or "None"
    enable_validation,
    agentPc,         \* "idle", "judge", "executing", "returned", "raised"
    entry,           \* "execute" or "validate": the method that was called
    command,         \* the command execute was called with
    intent,          \* the intent under validation
    agent_network,   \* self.network of the agent
    stagesRun,       \* the stages run so far, in order
    validation,      \* what _validate_with_agentshield returned
    executed,        \* the intent _execute_transaction was called with, if any
    agentResult,     \* what the entry method returned
    \* ---- CronosFacilitator used directly
    \*      (src/agentshield/facilitators/cronos_facilitator.py)
    facilitator_network, \* self.network
    last,            \* the latest generate_payment_header call, if any
    prev,            \* the call before it, if any
    wire,            \* the header text a holder of the codec has, if any
    wireOf,          \* the call that text came from, if it came from one
    decoded,         \* what decode_payment_header made of it, if called
    \* ---- simulate_swap (src/agentshield/simulator.py)
    probeEnv,        \* the arguments and what the chain answered
    probeResult,     \* what simulate_swap returned
    \* ---- the HTTP service (src/agentshield-api/main.py)
    apiRequest,      \* the endpoint called and its request body
    apiProbe,        \* what simulate_swap returned to validate_token, if called
    apiResponse      \* the HTTP response

facadeVars == <<private_key, network, heap, callPc, callArgs, callCtxBefore,
                callValidation, callSigner, callResult>>
agentVars == <<policy_engine, llm_judge, enable_validation, agent_network,
               agentPc, entry, command, intent, stagesRun, validation, executed,
               agentResult>>
signerVars == <<facilitator_network, last, prev>>
codecVars == <<wire, wireOf, decoded>>
probeVars == <<probeEnv, probeResult>>
apiVars == <<apiRequest, apiProbe, apiResponse>>
nonFacadeVars == <<agentVars, signerVars, codecVars, probeVars, apiVars>>
nonAgentVars == <<facadeVars, signerVars, codecVars, probeVars, apiVars>>
vars == <<facadeVars, agentVars, signerVars, codecVars, probeVars, apiVars>>

----------------------------------------------------------------------------
(* Options and dicts *)

None == <<>>
Some(x) == <<x>>
Has(o) == o # <<>>
\* dict.get(key, default)
Get(o, default) == IF o = <<>> THEN default ELSE o[1]

----------------------------------------------------------------------------
(* Bounds *)

NumCalls == 2       \* generate_*_payment_header calls that may be in flight
MaxClock == 1       \* time.time() returns one of 0..MaxClock
NumNonces == 2      \* os.urandom(32) draws one of 1..NumNonces

Calls == 1..NumCalls
Nonces == 1..NumNonces
Clock == 0..MaxClock

----------------------------------------------------------------------------
(* Characters *)

Digits == {"0", "1", "2", "3", "4", "5", "6", "7", "8", "9"}
Whitespace == {" "}
IsDigit(c) == c \in Digits

RECURSIVE LStrip(_)
LStrip(s) == IF s # <<>> /\ s[1] \in Whitespace THEN LStrip(Tail(s)) ELSE s
RECURSIVE RStrip(_)
RStrip(s) ==
    IF s # <<>> /\ s[Len(s)] \in Whitespace THEN RStrip(SubSeq(s, 1, Len(s) - 1)) ELSE s
RECURSIVE DropLeadingZeros(_)
DropLeadingZeros(s) ==
    IF Len(s) > 1 /\ s[1] = "0" THEN DropLeadingZeros(Tail(s)) ELSE s

\* int(s) of a str: surrounding whitespace, an optional sign, then digits with
\* single underscores between them; anything else raises ValueError
PyIntBody(s) ==
    LET t == RStrip(LStrip(s))
    IN IF t # <<>> /\ t[1] \in {"+", "-"} THEN Tail(t) ELSE t
PyIntParses(s) ==
    LET b == PyIntBody(s)
    IN /\ b # <<>>
       /\ \A i \in DOMAIN b :
            \/ IsDigit(b[i])
            \/ /\ b[i] = "_"
               /\ i > 1 /\ i < Len(b)
               /\ IsDigit(b[i - 1]) /\ IsDigit(b[i + 1])
\* the integer int(s) denotes: its sign and its decimal digits
PyInt(s) ==
    LET t == RStrip(LStrip(s))
        b == PyIntBody(s)
        d == DropLeadingZeros(SelectSeq(b, IsDigit))
    IN [neg |-> t[1] = "-" /\ d # <<"0">>, digits |-> d]

----------------------------------------------------------------------------
(* Addresses and keys *)

\* "short" is a string that is not 0x + 40 hex digits
AddrForms == {"lower", "mixed", "checksum", "short"}

\* str.lower() of an address string
AddrLower(a) == [id |-> a.id, form |-> IF a.form = "short" THEN "short" ELSE "lower"]

\* Web3.to_checksum_address raises on a string that is no address
AddrWellFormed(a) == a.form # "short"
\* A variant that leaves the address as it is given
ToChecksumAddressAsGiven(a) == a
\* Web3.to_checksum_address of a well-formed address
ToChecksumAddress(a) == [id |-> a.id, form |-> "checksum"]

\* private_key with the 0x prefix ensured
With0x(key) == [key EXCEPT !.prefixed = TRUE]
\* Account.from_key raises unless the key is 32 bytes of hex
KeyValid(key) == key.hex # "malformed"
\* A variant that gives every key the same address
AccountAddressShared(key) == [id |-> "account", form |-> "checksum"]
\* account.address: one address per key
AccountAddress(key) == [id |-> "account_" \o key.hex, form |-> "checksum"]

----------------------------------------------------------------------------
(* CronosFacilitator: the Authorization Signer *)

Raise(type, msg) == [raised |-> TRUE, exc |-> [type |-> type, msg |-> msg], value |-> None]
Return(v) == [raised |-> FALSE, exc |-> [type |-> "", msg |-> ""], value |-> Some(v)]

\* CronosFacilitator.TOKENS
TOKENS(net) ==
    CASE net = "cronos-testnet" ->
           {[address |-> [id |-> "devUSDCe", form |-> "checksum"],
             name |-> "Bridged USDC (Stargate)", version |-> "1"]}
      [] net = "cronos-mainnet" ->
           {[address |-> [id |-> "USDCe", form |-> "checksum"],
             name |-> "Bridged USDC (Stargate)", version |-> "1"]}
      [] OTHER -> {}

\* A variant that knows the two Cronos networks only
ChainIdOfKnown(net) ==
    IF net = "cronos-testnet" THEN 338 ELSE IF net = "cronos-mainnet" THEN 25 ELSE 0

\* self.chain_id
ChainId(net) == IF net = "cronos-testnet" THEN 338 ELSE 25

\* CronosFacilitator._get_token_config: the config, or None
GetTokenConfig(net, asset) ==
    LET found == {c \in TOKENS(net) : AddrLower(c.address) = AddrLower(asset)}
    IN IF found = {} THEN None ELSE Some(CHOOSE c \in found : TRUE)

\* x or d, for an optional str x
PyOr(o, d) == IF o = None \/ o[1] = "" THEN d ELSE o[1]

\* A variant that does not use the bytes drawn
NonceHexConstant(n) == [prefix |-> "0x", hex |-> "lower", bytes |-> 0]

\* "0x" + os.urandom(32).hex(), for the random bytes numbered n
NonceHex(n) == [prefix |-> "0x", hex |-> "lower", bytes |-> n]

\* account.sign_message(encode_typed_data(...)).signature.hex(), 0x ensured
Sign(key, domain, message) ==
    [prefix |-> "0x", hex |-> "lower",
     bytes |-> [signer |-> key.hex, domain |-> domain, message |-> message]]

\* JSON text, as the values it spells: a number, a string, or an object with
\* its members in order
JNum(i) == [t |-> "num", lit |-> i]
JStr(x) == [t |-> "str", chars |-> x]
JObj(members) == [t |-> "obj", members |-> members]

\* the keys of the payment header and of its payload, in insertion order
HeaderKeys == <<"x402Version", "scheme", "network", "payload">>
PayloadKeys ==
    <<"from", "to", "value", "validAfter", "validBefore", "nonce", "signature", "asset">>
\* the keys whose values are ints in the dict generate_payment_header builds
IntKeys == {"x402Version", "validAfter", "validBefore"}

\* json.dumps of the payload dict and of the payment header: an int is
\* written as a number, a str as a string
JsonDumpsPayload(p) ==
    JObj([k \in DOMAIN PayloadKeys |->
             [key |-> PayloadKeys[k],
              val |-> IF PayloadKeys[k] \in IntKeys
                      THEN JNum(p[PayloadKeys[k]]) ELSE JStr(p[PayloadKeys[k]])]])
JsonDumps(h) ==
    JObj([k \in DOMAIN HeaderKeys |->
             [key |-> HeaderKeys[k],
              val |-> IF HeaderKeys[k] = "payload" THEN JsonDumpsPayload(h.payload)
                      ELSE IF HeaderKeys[k] \in IntKeys
                      THEN JNum(h[HeaderKeys[k]]) ELSE JStr(h[HeaderKeys[k]])]])

\* json.loads of well-formed JSON text: a number gives an int, a string a
\* str, an object a dict (a repeated key keeps its last value)
RECURSIVE JsonLoads(_)
JsonLoads(j) ==
    CASE j.t = "num" -> j.lit
      [] j.t = "str" -> j.chars
      [] OTHER ->
           LET ms == j.members
               keys == {ms[k].key : k \in DOMAIN ms}
               lastAt(key) == CHOOSE k \in DOMAIN ms :
                               /\ ms[k].key = key
                               /\ \A l \in DOMAIN ms : ms[l].key = key => l <= k
           IN [key \in keys |-> JsonLoads(ms[lastAt(key)].val)]

\* Text handed to base64.b64decode: whether it holds characters outside the
\* base64 alphabet, whether its padding is right, and the bytes it spells;
\* the bytes: whether they are UTF-8, whether that text is JSON, and the JSON
Wire(stray, padded, utf8, is_json, doc) ==
    [stray |-> stray, padded |-> padded,
     bytes |-> [utf8 |-> utf8, is_json |-> is_json, doc |-> doc]]

\* base64.b64encode(json.dumps(h).encode()).decode()
EncodeHeader(h) == Wire(FALSE, TRUE, TRUE, TRUE, JsonDumps(h))

\* the methods the class CronosFacilitator defines
CronosFacilitatorMethods ==
    {"__init__", "generate_nonce", "generate_payment_header",
     "_get_token_config", "decode_payment_header"}

\* A variant that counts the window from zero rather than from the clock
ValidBeforeRelative(t, timeout_seconds) == timeout_seconds

\* A variant whose window always has the default length
ValidBeforeFixedWindow(t, timeout_seconds) == t + 300

\* "valid_before = int(time.time()) + timeout_seconds", t being int(time.time())
ValidBefore(t, timeout_seconds) == t + timeout_seconds

\* A variant that writes the amount as the decimal form of int(amount)
HeaderValueCanonical(amount) == PyInt(amount).digits

\* "value": amount, in the payment header
HeaderValue(amount) == amount

\* A variant that encodes any int
FitsUint256Unchecked(v) == TRUE

\* eth_abi refuses to encode a negative int as uint256
FitsUint256(v) == ~v.neg

\* CronosFacilitator.generate_payment_header up to the payment_header dict,
\* with the nonce drawn (n) and the clock read (t) as arguments.  token_name
\* and token_version are options.
PaymentHeader(net, key, pay_to, asset, amount, timeout_seconds, token_name, token_version, n, t) ==
    LET k == With0x(key)
        from_address == ToChecksumAddress(AddrLower(AccountAddress(k)))
        to_address == ToChecksumAddress(AddrLower(pay_to))
        asset_address == ToChecksumAddress(AddrLower(asset))
        nonce == NonceHex(n)
        valid_after == 0
        valid_before == ValidBefore(t, timeout_seconds)
        token_config == GetTokenConfig(net, asset)
        detect == token_name = None \/ token_version = None
        name == IF ~detect THEN token_name[1]
                ELSE IF Has(token_config)
                     THEN PyOr(token_name, token_config[1].name)
                     ELSE PyOr(token_name, "Bridged USDC (Stargate)")
        version == IF ~detect THEN token_version[1]
                   ELSE IF Has(token_config)
                        THEN PyOr(token_version, token_config[1].version)
                        ELSE PyOr(token_version, "1")
        domain == [name |-> name, version |-> version, chainId |-> ChainId(net),
                   verifyingContract |-> asset_address]
        message == [from |-> from_address, to |-> to_address,
                    value |-> PyInt(amount), validAfter |-> valid_after,
                    validBefore |-> valid_before, nonce |-> nonce]
        signature == Sign(k, domain, message)
        payment_header ==
            [x402Version |-> 1, scheme |-> "eip3009", network |-> net,
             payload |-> [from |-> from_address, to |-> to_address,
                          value |-> HeaderValue(amount), validAfter |-> valid_after,
                          validBefore |-> valid_before, nonce |-> nonce,
                          signature |-> signature, asset |-> asset_address]]
    IN IF ~KeyValid(k)
       THEN Raise("ValueError", "The private key must be exactly 32 bytes long")
       ELSE IF ~AddrWellFormed(AddrLower(pay_to)) \/ ~AddrWellFormed(AddrLower(asset))
       THEN Raise("ValueError", "Unknown format, attempted to normalize to an address")
       ELSE IF ~PyIntParses(amount)
       THEN Raise("ValueError", "invalid literal for int() with base 10")
       ELSE IF ~FitsUint256(PyInt(amount))
       THEN Raise("ValueOutOfBounds", "Cannot be encoded in 256 bits")
       ELSE Return(payment_header)

\* CronosFacilitator.generate_payment_header: the header, JSON- and
\* base64-encoded
GeneratePaymentHeader(net, key, pay_to, asset, amount, timeout_seconds, token_name, token_version, n, t) ==
    LET h == PaymentHeader(net, key, pay_to, asset, amount, timeout_seconds, token_name, token_version, n, t)
    IN IF h.raised THEN h ELSE Return(EncodeHeader(h.value[1]))

\* CronosFacilitator.decode_payment_header
DecodePaymentHeader(header_b64) ==
    IF ~header_b64.padded
    THEN Raise("binascii.Error", "Incorrect padding")
    ELSE IF ~header_b64.bytes.utf8
    THEN Raise("UnicodeDecodeError", "'utf-8' codec can't decode byte")
    ELSE IF ~header_b64.bytes.is_json
    THEN Raise("JSONDecodeError", "Expecting value")
    ELSE Return(JsonLoads(header_b64.bytes.doc))

----------------------------------------------------------------------------
(* SafeFacilitator: the Safe Authorization Facade *)

DefaultTimeout == 300

\* the keys a context dict can hold
EmptyDict ==
    [purpose |-> None, payment_type |-> None, recipient |-> None,
     token |-> None, amount |-> None, network |-> None]

\* context.update({...}) of generate_safe_payment_header
UpdateContext(d, net, pay_to, asset, amount) ==
    [d EXCEPT !.payment_type = Some("x402"), !.recipient = Some(pay_to),
              !.token = Some(asset), !.amount = Some(amount),
              !.network = Some(net)]

\* The dicts callers hold, and the dict a call creates when context is None
CallerRefs == {<<"caller", 1>>}
FreshRef(c) == <<"fresh", c>>
Refs == CallerRefs \cup {FreshRef(c) : c \in Calls}

\* What policy_engine.validate_transaction can return: a dict that may or may
\* not hold "approved", "reason" and "stages"
ValidationResults ==
    {[approved |-> Some(TRUE), reason |-> None, stages |-> Some("stages")],
     [approved |-> Some(FALSE), reason |-> Some(<<"Amount exceeds policy limit">>),
      stages |-> Some("stages")],
     [approved |-> Some(FALSE), reason |-> None, stages |-> None],
     [approved |-> None, reason |-> None, stages |-> None]}

\* What generate_safe_payment_header returns: a dict
ResultDict(approved, header, reason, vr, error, metadata) ==
    [kind |-> "return", approved |-> Some(approved), payment_header |-> header,
     reason |-> reason, validation |-> Some(vr),
     stages |-> Some(Get(vr.stages, "{}")), error |-> error,
     metadata |-> metadata, exc |-> None]
\* A bare payment header, as generate_unsafe_payment_header returns it
ResultHeader(header) ==
    [kind |-> "return", approved |-> None, payment_header |-> Some(header),
     reason |-> None, validation |-> None, stages |-> None, error |-> None,
     metadata |-> None, exc |-> None]
\* An exception leaving the method
ResultRaise(exc) ==
    [kind |-> "raise", approved |-> None, payment_header |-> None,
     reason |-> None, validation |-> None, stages |-> None, error |-> None,
     metadata |-> None, exc |-> Some(exc)]

\* self.facilitator._get_account_address(self.private_key)
GetAccountAddress(key) ==
    IF "_get_account_address" \in CronosFacilitatorMethods
    THEN Return(AccountAddress(With0x(key)))
    ELSE Raise("AttributeError",
               "'CronosFacilitator' object has no attribute '_get_account_address'")

\* A variant of the except branch that reports the failure the way a pipeline
\* rejection is reported: the validation's reason, and no "error"
SigningFailedAsRejection(vr, exc) ==
    ResultDict(FALSE, None, Some(Get(vr.reason, <<"Validation failed">>)),
               vr, None, None)

\* the except branch of generate_safe_payment_header
SigningFailed(vr, exc) ==
    ResultDict(FALSE, None,
               Some(<<"Failed to generate payment header: ", exc.msg>>),
               vr, Some(exc.msg), None)

\* the try block of generate_safe_payment_header, after validation passed
SignAndReturn(key, net, args, vr, n, t) ==
    LET g == GeneratePaymentHeader(net, key, args.pay_to, args.asset, args.amount,
                                   args.timeout_seconds, None, None, n, t)
        from == GetAccountAddress(key)
    IN IF g.raised THEN SigningFailed(vr, g.exc)
       ELSE IF from.raised THEN SigningFailed(vr, from.exc)
       ELSE ResultDict(TRUE, g.value, None, vr, None,
                       Some([from |-> from.value[1], to |-> args.pay_to,
                             asset |-> args.asset, amount |-> args.amount,
                             network |-> net,
                             valid_for_seconds |-> args.timeout_seconds]))

\* whether generate_payment_header raises on these arguments (the nonce and
\* the clock do not matter to that)
SignerRaises(key, net, args) ==
    GeneratePaymentHeader(net, key, args.pay_to, args.asset, args.amount,
                          args.timeout_seconds, None, None, 1, 0).raised

\* A variant of the approval test that reads a missing "approved" as True
ValidationPassedDefaultTrue(vr) == Get(vr.approved, TRUE) = TRUE

\* "if not validation_result.get('approved', False)"
ValidationPassed(vr) == Get(vr.approved, FALSE) = TRUE

\* A variant of the rejection that reads "reason" without a default
RejectedNoDefaultReason(vr) ==
    ResultDict(FALSE, None, vr.reason, vr, None, None)

\* the dict returned when validation did not pass
Rejected(vr) ==
    ResultDict(FALSE, None, Some(Get(vr.reason, <<"Validation failed">>)),
               vr, None, None)

\* generate_safe_payment_header from the return of validate_transaction on:
\* the result, and the signer invocations made
AfterValidation(key, net, args, vr, n, t) ==
    IF ~ValidationPassed(vr)
    THEN [result |-> Rejected(vr), signer |-> <<>>]
    ELSE [result |-> SignAndReturn(key, net, args, vr, n, t),
          signer |-> <<[via |-> "generate_safe_payment_header",
                        approved |-> vr.approved,
                        raised |-> SignerRaises(key, net, args)]>>]

NoArgs ==
    [method |-> "", pay_to |-> None, asset |-> None, amount |-> None,
     context |-> None, timeout_seconds |-> 0]
NoValidation == [to |-> None, value |-> None, data |-> "", context |-> None]
NoResult ==
    [kind |-> "", approved |-> None, payment_header |-> None, reason |-> None,
     validation |-> None, stages |-> None, error |-> None, metadata |-> None,
     exc |-> None]

\* The arguments callers pass
PrivateKeys ==
    {[hex |-> "11", prefixed |-> TRUE], [hex |-> "11", prefixed |-> FALSE],
     [hex |-> "malformed", prefixed |-> TRUE]}
PayTos == {[id |-> "payee", form |-> "mixed"]}
Assets == {[id |-> "devUSDCe", form |-> "lower"]}
Amounts == {<<"1", "0", "0", "0">>}
Contexts == {None} \cup CallerRefs

FacadeInit ==
    /\ private_key \in PrivateKeys
    /\ network = "cronos-testnet"
    /\ heap = [r \in Refs |->
                 IF r \in CallerRefs
                 THEN [EmptyDict EXCEPT !.purpose = Some("API access payment")]
                 ELSE EmptyDict]
    /\ callPc = [c \in Calls |-> "idle"]
    /\ callArgs = [c \in Calls |-> NoArgs]
    /\ callCtxBefore = [c \in Calls |-> EmptyDict]
    /\ callValidation = [c \in Calls |-> NoValidation]
    /\ callSigner = [c \in Calls |-> <<>>]
    /\ callResult = [c \in Calls |-> NoResult]

\* generate_safe_payment_header up to its await: the context is prepared and
\* validate_transaction is called
SafeBegin(c, pay_to, asset, amount, context) ==
    LET ref == IF context = None THEN FreshRef(c) ELSE context
        before == IF context = None THEN EmptyDict ELSE heap[ref]
    IN /\ callPc[c] = "idle"
       /\ callPc' = [callPc EXCEPT ![c] = "awaiting"]
       /\ callArgs' = [callArgs EXCEPT ![c] =
             [method |-> "generate_safe_payment_header", pay_to |-> Some(pay_to),
              asset |-> Some(asset), amount |-> Some(amount),
              context |-> context, timeout_seconds |-> DefaultTimeout]]
       /\ callCtxBefore' = [callCtxBefore EXCEPT ![c] = before]
       /\ heap' = [heap EXCEPT ![ref] =
                      UpdateContext(before, network, pay_to, asset, amount)]
       /\ callValidation' = [callValidation EXCEPT ![c] =
             [to |-> Some(pay_to), value |-> Some(amount), data |-> "0x",
              context |-> ref]]
       /\ UNCHANGED <<nonFacadeVars, private_key, network, callSigner, callResult>>

\* the await ends with a result: the rest of generate_safe_payment_header
SafeResume(c, vr, n, t) ==
    LET a == callArgs[c]
        args == [pay_to |-> a.pay_to[1], asset |-> a.asset[1],
                 amount |-> a.amount[1], timeout_seconds |-> a.timeout_seconds]
        out == AfterValidation(private_key, network, args, vr, n, t)
    IN /\ callPc[c] = "awaiting"
       /\ callPc' = [callPc EXCEPT ![c] = "returned"]
       /\ callResult' = [callResult EXCEPT ![c] = out.result]
       /\ callSigner' = [callSigner EXCEPT ![c] = out.signer]
       /\ UNCHANGED <<nonFacadeVars, private_key, network, heap, callArgs, callCtxBefore,
                      callValidation>>

\* the await ends with an exception (validate_transaction raised or timed out)
SafeValidationRaises(c) ==
    /\ callPc[c] = "awaiting"
    /\ callPc' = [callPc EXCEPT ![c] = "raised"]
    /\ callResult' = [callResult EXCEPT ![c] =
          ResultRaise([type |-> "TimeoutError", msg |-> "validation timed out"])]
    /\ UNCHANGED <<nonFacadeVars, private_key, network, heap, callArgs, callCtxBefore,
                   callValidation, callSigner>>

\* generate_unsafe_payment_header
Unsafe(c, pay_to, asset, amount, n, t) ==
    LET g == GeneratePaymentHeader(network, private_key, pay_to, asset, amount,
                                   DefaultTimeout, None, None, n, t)
    IN /\ callPc[c] = "idle"
       /\ callPc' = [callPc EXCEPT ![c] = IF g.raised THEN "raised" ELSE "returned"]
       /\ callArgs' = [callArgs EXCEPT ![c] =
             [method |-> "generate_unsafe_payment_header", pay_to |-> Some(pay_to),
              asset |-> Some(asset), amount |-> Some(amount),
              context |-> None, timeout_seconds |-> DefaultTimeout]]
       /\ callSigner' = [callSigner EXCEPT ![c] =
             <<[via |-> "generate_unsafe_payment_header", approved |-> None,
                raised |-> g.raised]>>]
       /\ callResult' = [callResult EXCEPT ![c] =
             IF g.raised THEN ResultRaise(g.exc) ELSE ResultHeader(g.value[1])]
       /\ UNCHANGED <<nonFacadeVars, private_key, network, heap,
                      callCtxBefore, callValidation>>

\* the caller takes the result; the call's own dict is dropped
Finish(c) ==
    /\ callPc[c] \in {"returned", "raised"}
    /\ callPc' = [callPc EXCEPT ![c] = "idle"]
    /\ callArgs' = [callArgs EXCEPT ![c] = NoArgs]
    /\ callCtxBefore' = [callCtxBefore EXCEPT ![c] = EmptyDict]
    /\ callValidation' = [callValidation EXCEPT ![c] = NoValidation]
    /\ callSigner' = [callSigner EXCEPT ![c] = <<>>]
    /\ callResult' = [callResult EXCEPT ![c] = NoResult]
    /\ heap' = [heap EXCEPT ![FreshRef(c)] = EmptyDict]
    /\ UNCHANGED <<nonFacadeVars, private_key, network>>

FacadeNext ==
    \/ \E c \in Calls, p \in PayTos, a \in Assets, m \in Amounts, x \in Contexts :
          SafeBegin(c, p, a, m, x)
    \* a rejection returns before the signer draws a nonce or reads the clock
    \/ \E c \in Calls, vr \in ValidationResults :
          ~ValidationPassed(vr) /\ SafeResume(c, vr, 1, 0)
    \/ \E c \in Calls, vr \in ValidationResults, n \in Nonces, t \in Clock :
          ValidationPassed(vr) /\ SafeResume(c, vr, n, t)
    \/ \E c \in Calls : SafeValidationRaises(c)
    \/ \E c \in Calls, p \in PayTos, a \in Assets, m \in Amounts, n \in Nonces, t \in Clock :
          Unsafe(c, p, a, m, n, t)
    \/ \E c \in Calls : Finish(c)

----------------------------------------------------------------------------
(* Text *)

UpperChars == <<"A", "B", "C", "D", "E", "F", "G", "H", "I", "J", "K", "L", "M", "N", "O", "P", "Q", "R", "S", "T", "U", "V", "W", "X", "Y", "Z">>
LowerChars == <<"a", "b", "c", "d", "e", "f", "g", "h", "i", "j", "k", "l", "m", "n", "o", "p", "q", "r", "s", "t", "u", "v", "w", "x", "y", "z">>
Letters == {UpperChars[i] : i \in DOMAIN UpperChars} \cup {LowerChars[i] : i \in DOMAIN LowerChars}
\* \w of the re module, on ASCII text
WordChars == Digits \cup Letters \cup {"_"}
HexChars == Digits \cup {"a", "b", "c", "d", "e", "f", "A", "B", "C", "D", "E", "F"}

ToLower(c) ==
    IF \E i \in DOMAIN UpperChars : UpperChars[i] = c
    THEN LowerChars[CHOOSE i \in DOMAIN UpperChars : UpperChars[i] = c]
    ELSE c
ToUpper(c) ==
    IF \E i \in DOMAIN LowerChars : LowerChars[i] = c
    THEN UpperChars[CHOOSE i \in DOMAIN LowerChars : LowerChars[i] = c]
    ELSE c
\* A variant that leaves the letter case as it is
LowerAsGiven(s) == s
\* str.lower(), str.upper()
Lower(s) == [i \in DOMAIN s |-> ToLower(s[i])]
Upper(s) == [i \in DOMAIN s |-> ToUpper(s[i])]

\* "sub in s"
Contains(s, sub) ==
    \E i \in 1..(Len(s) - Len(sub) + 1) : SubSeq(s, i, i + Len(sub) - 1) = sub

SetMax(S) == CHOOSE x \in S : \A y \in S : y <= x
SetMin(S) == CHOOSE x \in S : \A y \in S : x <= y
\* the last index of the longest run of characters of C that starts at i
\* (i - 1 when s[i] is not in C)
RunEnd(s, i, C) ==
    LET js == {j \in i..Len(s) : \A k \in i..j : s[k] \in C}
    IN IF js = {} THEN i - 1 ELSE SetMax(js)

\* The ways (\d+(?:\.\d+)?)\s*(\w+) matches at i: <<j, e>> with the first
\* digit run ending at j and the number at e
AmountMatchesAt(s, i) ==
    IF i > Len(s) \/ s[i] \notin Digits THEN {}
    ELSE {m \in (i..RunEnd(s, i, Digits)) \X (i..Len(s)) :
            LET j == m[1]
                e == m[2]
                p == RunEnd(s, e + 1, Whitespace) + 1
            IN /\ \/ e = j
                  \/ /\ j + 2 <= Len(s)
                     /\ s[j + 1] = "."
                     /\ e \in (j + 2)..RunEnd(s, j + 2, Digits)
               /\ p <= Len(s)
               /\ s[p] \in WordChars}

\* re.search(r'(\d+(?:\.\d+)?)\s*(\w+)', s): groups 1 and 2 of the leftmost
\* match, each quantifier greedy, or None
AmountSearch(s) ==
    LET starts == {i \in DOMAIN s : AmountMatchesAt(s, i) # {}}
    IN IF starts = {} THEN None
       ELSE LET i == SetMin(starts)
                ms == AmountMatchesAt(s, i)
                j == SetMax({m[1] : m \in ms})
                e == SetMax({m[2] : m \in {x \in ms : x[1] = j}})
                p == RunEnd(s, e + 1, Whitespace) + 1
            IN Some([amount |-> SubSeq(s, i, e),
                     token |-> SubSeq(s, p, RunEnd(s, p, WordChars))])

\* re.search(r'(0x[a-fA-F0-9]{40})', s): group 1 of the leftmost match, or None
AddressSearch(s) ==
    LET starts == {i \in 1..(Len(s) - 41) :
                     /\ s[i] = "0" /\ s[i + 1] = "x"
                     /\ \A k \in (i + 2)..(i + 41) : s[k] \in HexChars}
    IN IF starts = {} THEN None
       ELSE Some(SubSeq(s, SetMin(starts), SetMin(starts) + 41))

----------------------------------------------------------------------------
(* float(amount) > 100 *)

PolicyLimit == 100
DigitValue(c) == CHOOSE n \in 0..9 : <<"0", "1", "2", "3", "4", "5", "6", "7", "8", "9">>[n + 1] = c

\* a > b for digit strings of one length
RECURSIVE DigitsGreater(_, _)
DigitsGreater(a, b) ==
    IF a = <<>> THEN FALSE
    ELSE IF a[1] # b[1] THEN DigitValue(a[1]) > DigitValue(b[1])
    ELSE DigitsGreater(Tail(a), Tail(b))

RECURSIVE NatDigits(_)
NatDigits(n) ==
    IF n < 10 THEN <<<<"0", "1", "2", "3", "4", "5", "6", "7", "8", "9">>[n + 1]>>
    ELSE Append(NatDigits(n \div 10), <<"0", "1", "2", "3", "4", "5", "6", "7", "8", "9">>[(n % 10) + 1])

\* The decimal digits of 2^-47, half the spacing of the doubles next to 100.0:
\* a decimal in (100, 100 + 2^-47] is converted to the double 100.0
HalfUlpAt100 == <<"0", "0", "0", "0", "0", "0", "0", "0", "0", "0", "0", "0", "0", "0", "7", "1", "0", "5", "4", "2", "7", "3", "5", "7", "6", "0", "1", "0", "0", "1", "8", "5", "8", "7", "1", "1", "2", "4", "2", "6", "7", "5", "7", "8", "1", "2", "5">>

PadZeros(s, n) == s \o [i \in 1..(n - Len(s)) |-> "0"]

\* float(s) > limit, for s = digits or digits.digits and limit = 100
FloatGreater(s, limit) ==
    LET dot == {i \in DOMAIN s : s[i] = "."}
        whole == IF dot = {} THEN s ELSE SubSeq(s, 1, SetMin(dot) - 1)
        frac == IF dot = {} THEN <<>> ELSE SubSeq(s, SetMin(dot) + 1, Len(s))
        w == DropLeadingZeros(whole)
        l == NatDigits(limit)
        n == IF Len(frac) > Len(HalfUlpAt100) THEN Len(frac) ELSE Len(HalfUlpAt100)
    IN \/ Len(w) > Len(l)
       \/ Len(w) = Len(l) /\ DigitsGreater(w, l)
       \/ w = l /\ DigitsGreater(PadZeros(frac, n), PadZeros(HalfUlpAt100, n))

----------------------------------------------------------------------------
(* SafeCryptoComAgent *)

DefaultToAddress == <<"0", "x", "7", "4", "2", "d", "3", "5", "C", "c", "6", "6", "3", "4", "C", "0", "5", "3", "2", "9", "2", "5", "a", "3", "b", "8", "4", "4", "B", "c", "9", "e", "7", "5", "9", "5", "f", "0", "b", "E", "b">>
WalletAddress == <<"0", "x", "7", "B", "D", "6", "C", "d", "1", "A", "9", "7", "5", "4", "3", "8", "E", "5", "1", "0", "e", "1", "C", "C", "7", "0", "a", "8", "1", "5", "0", "4", "2", "B", "b", "3", "5", "7", "B", "1", "3", "1">>

\* An intent: a dict with the keys of its action
Intent(action, token, amount, to, from, from_token, to_token, query, net) ==
    [action |-> action, token |-> token, amount |-> amount, to |-> to,
     from |-> from, from_token |-> from_token, to_token |-> to_token,
     query |-> query, network |-> net]

\* A variant of _parse_intent whose swap path falls back on the amount and
\* token of the transfer path
ParseIntentOneDefault(cmd, net) ==
    LET command_lower == Lower(cmd)
        amount_match == AmountSearch(cmd)
        address_match == AddressSearch(cmd)
    IN IF Contains(command_lower, <<"s", "e", "n", "d">>) \/ Contains(command_lower, <<"t", "r", "a", "n", "s", "f", "e", "r">>)
       THEN LET amount == IF Has(amount_match) THEN amount_match[1].amount ELSE <<"1", "0">>
                token == IF Has(amount_match) THEN Upper(amount_match[1].token) ELSE <<"U", "S", "D", "C">>
                to_address == IF Has(address_match) THEN address_match[1] ELSE DefaultToAddress
            IN Intent("transfer", Some(token), Some(amount), Some(to_address),
                      Some(WalletAddress), None, None, None, net)
       ELSE IF Contains(command_lower, <<"b", "u", "y">>) \/ Contains(command_lower, <<"s", "w", "a", "p">>)
       THEN LET amount == IF Has(amount_match) THEN amount_match[1].amount ELSE <<"1", "0">>
                token == IF Has(amount_match) THEN Upper(amount_match[1].token) ELSE <<"U", "S", "D", "C">>
            IN Intent("swap", Some(token), Some(amount), None, None,
                      Some(<<"U", "S", "D", "C">>), Some(token), None, net)
       ELSE Intent("query", None, None, None, None, None, None, Some(cmd), net)

\* SafeCryptoComAgent._parse_intent
ParseIntent(cmd, net) ==
    LET command_lower == Lower(cmd)
        amount_match == AmountSearch(cmd)
        address_match == AddressSearch(cmd)
    IN IF Contains(command_lower, <<"s", "e", "n", "d">>) \/ Contains(command_lower, <<"t", "r", "a", "n", "s", "f", "e", "r">>)
       THEN LET amount == IF Has(amount_match) THEN amount_match[1].amount ELSE <<"1", "0">>
                token == IF Has(amount_match) THEN Upper(amount_match[1].token) ELSE <<"U", "S", "D", "C">>
                to_address == IF Has(address_match) THEN address_match[1] ELSE DefaultToAddress
            IN Intent("transfer", Some(token), Some(amount), Some(to_address),
                      Some(WalletAddress), None, None, None, net)
       ELSE IF Contains(command_lower, <<"b", "u", "y">>) \/ Contains(command_lower, <<"s", "w", "a", "p">>)
       THEN LET amount == IF Has(amount_match) THEN amount_match[1].amount ELSE <<"1", "0", "0">>
                token == IF Has(amount_match) THEN Upper(amount_match[1].token) ELSE <<"S", "C", "A", "M">>
            IN Intent("swap", Some(token), Some(amount), None, None,
                      Some(<<"U", "S", "D", "C">>), Some(token), None, net)
       ELSE Intent("query", None, None, None, None, None, None, Some(cmd), net)

\* SafeCryptoComAgent._stage1_llm_judge, once its sleep has ended
Stage1LLMJudge(i) == [passed |-> TRUE, reason |-> <<"Intent is safe">>]

\* SafeCryptoComAgent._stage2_policy
Stage2Policy(i) ==
    IF i.action = "transfer" /\ FloatGreater(Get(i.amount, <<"0">>), PolicyLimit)
    THEN [passed |-> FALSE,
          reason |-> <<"Transfer amount (">> \o Get(i.amount, <<"0">>) \o <<" ">>
                     \o i.token[1] \o <<") exceeds policy limit (100)">>]
    ELSE [passed |-> TRUE, reason |-> <<"Within policy limits">>]

honeypot_tokens == {<<"S", "C", "A", "M">>, <<"F", "A", "K", "E">>, <<"R", "U", "G">>, <<"H", "O", "N", "E", "Y", "P", "O", "T">>}

\* SafeCryptoComAgent._stage3_honeypot
Stage3Honeypot(i) ==
    LET token == Upper(Get(i.to_token, Get(i.token, <<>>)))
    IN IF \E hp \in honeypot_tokens : Contains(token, hp)
       THEN [passed |-> FALSE,
             reason |-> <<"Honeypot token detected: ">> \o token \o <<" cannot be sold">>]
       ELSE [passed |-> TRUE, reason |-> <<"Token is safe">>]

\* A variant of the Stage 3.5 condition that leaves "buy" out
NeedsHoneypotSwapOnly(i) == i.action = "swap"

\* "if intent['action'] in ['swap', 'buy']"
NeedsHoneypot(i) == i.action \in {"swap", "buy"}

\* What _validate_with_agentshield returns, with the stages it ran
Blocked(reason, stage, run) ==
    [approved |-> FALSE, reason |-> reason, stage_failed |-> Some(stage), run |-> run]
Approved(run) ==
    [approved |-> TRUE, reason |-> <<"All validation stages passed">>,
     stage_failed |-> None, run |-> run]

\* _validate_with_agentshield from Stage 3.5 on
FromHoneypot(i, run) ==
    IF NeedsHoneypot(i)
    THEN LET run3 == Append(run, "Honeypot Detection")
             honeypot_result == Stage3Honeypot(i)
         IN IF ~honeypot_result.passed
            THEN Blocked(honeypot_result.reason, "Honeypot Detection", run3)
            ELSE Approved(Append(run3, "LLM Analysis"))
    ELSE Approved(Append(run, "LLM Analysis"))

\* A variant of Stage 2 that records the failure and lets the later stages
\* run before it returns
FromPolicyNoShortCircuit(pe, i, run) ==
    IF pe # "None"
    THEN LET run2 == Append(run, "Policy Validation")
             policy_result == Stage2Policy(i)
             later == FromHoneypot(i, run2)
         IN IF ~policy_result.passed
            THEN Blocked(policy_result.reason, "Policy Validation", later.run)
            ELSE later
    ELSE FromHoneypot(i, run)

\* _validate_with_agentshield from Stage 2 on
FromPolicy(pe, i, run) ==
    IF pe # "None"
    THEN LET run2 == Append(run, "Policy Validation")
             policy_result == Stage2Policy(i)
         IN IF ~policy_result.passed
            THEN Blocked(policy_result.reason, "Policy Validation", run2)
            ELSE FromHoneypot(i, run2)
    ELSE FromHoneypot(i, run)

\* _validate_with_agentshield from the return of _stage1_llm_judge on
FromJudge(pe, i, run, llm_result) ==
    IF ~llm_result.passed
    THEN Blocked(llm_result.reason, "LLM Intent Judge", run)
    ELSE FromPolicy(pe, i, run)

\* SafeCryptoComAgent._execute_transaction, once its sleep has ended
ExecuteTransaction(i) ==
    CASE i.action = "transfer" ->
           [message |-> <<"Transferred ">> \o i.amount[1] \o <<" ">> \o i.token[1]
                        \o <<" to ">> \o SubSeq(i.to[1], 1, 10) \o <<"...">>,
            tx_hash |-> Some(<<"0x", "1", 64>>)]
      [] i.action = "swap" ->
           [message |-> <<"Swapped ">> \o i.amount[1] \o <<" ">> \o i.from_token[1]
                        \o <<" for ">> \o i.to_token[1],
            tx_hash |-> Some(<<"0x", "2", 64>>)]
      [] OTHER ->
           [message |-> <<"Executed query: ">> \o i.query[1], tx_hash |-> None]

NoIntent == Intent("", None, None, None, None, None, None, None, "")
NoVerdict == [approved |-> FALSE, reason |-> <<>>, stage_failed |-> None, run |-> <<>>]
NoAgentResult ==
    [kind |-> "", approved |-> None, reason |-> None, stage_failed |-> None,
     message |-> None, tx_hash |-> None]

\* The commands passed to execute
Commands ==
    {<<"S", "e", "n", "d", " ", "1", "0", " ", "U", "S", "D", "C">>,
     <<"S", "e", "n", "d", " ", "1", "0", "0", " ", "U", "S", "D", "C">>, <<"s", "e", "n", "d", " ", "5", "0", "0", " ", "u", "s", "d", "c">>, <<"T", "r", "a", "n", "s", "f", "e", "r", " ", "1", "0", "0", ".", "5", " ", "C", "R", "O">>,
     <<"t", "r", "a", "n", "s", "f", "e", "r">>, <<"s", "w", "a", "p", " ", "5", " ", "C", "R", "O">>, <<"B", "u", "y", " ", "1", "0", "0", " ", "S", "C", "A", "M">>, <<"b", "u", "y">>, <<"b", "a", "l", "a", "n", "c", "e">>,
     <<"S", "W", "A", "P">>, <<"B", "a", "l", "a", "n", "c", "e">>,
     <<"b", "u", "y", " ", "t", "o", " ", "s", "e", "n", "d">>,
     <<"s", "w", "a", "p", " ", "5", "0", "0", " ", "C", "R", "O">>,
     <<"s", "e", "n", "d", " ", "1", "0", "0", ".", "0", "0", "0", "0", "0", "0", "0", "0", "0", "0", "0", "0", "0", "0", "1", " ", "U", "S", "D", "C">>}

\* The intents passed to _validate_with_agentshield directly
DirectIntents ==
    {Intent("buy", Some(<<"C", "R", "O">>), Some(<<"5">>), None, None, None, None, None, "cronos-testnet"),
     Intent("buy", Some(<<"F", "A", "K", "E">>), Some(<<"5">>), None, None, None, None, None, "cronos-testnet"),
     Intent("transfer", Some(<<"U", "S", "D", "C">>), Some(<<"1", "0", "1">>), Some(DefaultToAddress),
            Some(WalletAddress), None, None, None, "cronos-testnet")}

AgentInit ==
    /\ \/ policy_engine = "PolicyEngine" /\ llm_judge = "LLMJudge"
       \/ policy_engine = "None" /\ llm_judge = "None"
    /\ enable_validation \in BOOLEAN
    /\ agent_network \in {"cronos-testnet", "cronos-mainnet"}
    /\ agentPc = "idle"
    /\ entry = ""
    /\ command = <<>>
    /\ intent = NoIntent
    /\ stagesRun = <<>>
    /\ validation = NoVerdict
    /\ executed = None
    /\ agentResult = NoAgentResult

\* A variant of execute that goes on to _execute_transaction whatever the
\* verdict
AfterVerdictUngated(v) ==
    /\ validation' = v
    /\ stagesRun' = v.run
    /\ IF entry' = "validate"
       THEN /\ agentPc' = "returned"
            /\ executed' = None
            /\ agentResult' = [kind |-> "return", approved |-> Some(v.approved),
                               reason |-> Some(v.reason),
                               stage_failed |-> v.stage_failed,
                               message |-> None, tx_hash |-> None]
       ELSE /\ agentPc' = "executing"
            /\ executed' = Some(intent')
            /\ agentResult' = NoAgentResult

\* execute, from the return of _validate_with_agentshield to its next await
AfterVerdict(v) ==
    /\ validation' = v
    /\ stagesRun' = v.run
    /\ IF entry' = "validate"
       THEN /\ agentPc' = "returned"
            /\ executed' = None
            /\ agentResult' = [kind |-> "return", approved |-> Some(v.approved),
                               reason |-> Some(v.reason),
                               stage_failed |-> v.stage_failed,
                               message |-> None, tx_hash |-> None]
       ELSE IF ~v.approved
       THEN /\ agentPc' = "returned"
            /\ executed' = None
            /\ agentResult' = [kind |-> "return", approved |-> Some(FALSE),
                               reason |-> Some(v.reason),
                               stage_failed |-> v.stage_failed,
                               message |-> None, tx_hash |-> None]
       ELSE /\ agentPc' = "executing"
            /\ executed' = Some(intent')
            /\ agentResult' = NoAgentResult

\* _validate_with_agentshield up to its first await
BeginValidation(i) ==
    IF llm_judge # "None"
    THEN /\ agentPc' = "judge"
         /\ stagesRun' = <<"LLM Intent Judge">>
         /\ UNCHANGED <<validation, executed, agentResult>>
    ELSE AfterVerdict(FromPolicy(policy_engine, i, <<>>))

\* execute(command), up to its first await
Execute(cmd) ==
    /\ agentPc = "idle"
    /\ entry' = "execute"
    /\ command' = cmd
    /\ intent' = ParseIntent(cmd, agent_network)
    /\ IF enable_validation
       THEN BeginValidation(intent')
       ELSE /\ agentPc' = "executing"
            /\ executed' = Some(intent')
            /\ UNCHANGED <<stagesRun, validation, agentResult>>
    /\ UNCHANGED <<nonAgentVars, policy_engine, llm_judge, enable_validation, agent_network>>

\* _validate_with_agentshield(intent) called on its own
Validate(i) ==
    /\ agentPc = "idle"
    /\ entry' = "validate"
    /\ intent' = i
    /\ BeginValidation(i)
    /\ UNCHANGED <<nonAgentVars, policy_engine, llm_judge, enable_validation, agent_network, command>>

\* the await in _stage1_llm_judge ends and the judge returns
JudgeReturns ==
    /\ agentPc = "judge"
    /\ UNCHANGED <<nonAgentVars, policy_engine, llm_judge, enable_validation, agent_network,
                   entry, command, intent>>
    /\ AfterVerdict(FromJudge(policy_engine, intent, stagesRun, Stage1LLMJudge(intent)))

\* the await in _stage1_llm_judge ends with an exception (a timeout cancels
\* it): nothing catches it on the way out of the entry method
JudgeRaises ==
    /\ agentPc = "judge"
    /\ agentPc' = "raised"
    /\ agentResult' = [NoAgentResult EXCEPT !.kind = "raise"]
    /\ UNCHANGED <<nonAgentVars, policy_engine, llm_judge, enable_validation, agent_network,
                   entry, command, intent, stagesRun, validation, executed>>

\* the await in _execute_transaction ends and execute returns
ExecuteReturns ==
    LET result == ExecuteTransaction(intent)
    IN /\ agentPc = "executing"
       /\ agentPc' = "returned"
       /\ agentResult' = [kind |-> "return", approved |-> Some(TRUE),
                          reason |-> None, stage_failed |-> None,
                          message |-> Some(result.message),
                          tx_hash |-> Some(result.tx_hash)]
       /\ UNCHANGED <<nonAgentVars, policy_engine, llm_judge, enable_validation, agent_network,
                      entry, command, intent, stagesRun, validation, executed>>

\* the caller takes the result
AgentFinish ==
    /\ agentPc \in {"returned", "raised"}
    /\ agentPc' = "idle"
    /\ entry' = ""
    /\ command' = <<>>
    /\ intent' = NoIntent
    /\ stagesRun' = <<>>
    /\ validation' = NoVerdict
    /\ executed' = None
    /\ agentResult' = NoAgentResult
    /\ UNCHANGED <<nonAgentVars, policy_engine, llm_judge, enable_validation, agent_network>>

AgentNext ==
    \/ \E cmd \in Commands : Execute(cmd)
    \/ \E i \in DirectIntents : Validate(i)
    \/ JudgeReturns
    \/ JudgeRaises
    \/ ExecuteReturns
    \/ AgentFinish

----------------------------------------------------------------------------
(* CronosFacilitator called directly *)

\* "timeout_seconds: int = 300" of CronosFacilitator.generate_payment_header
SignerDefaultTimeout == 300

\* The arguments of one generate_payment_header call; timeout_seconds,
\* token_name and token_version are options (None when not passed)
BaseRequest ==
    [private_key |-> [hex |-> "11", prefixed |-> TRUE],
     pay_to |-> [id |-> "payee", form |-> "mixed"],
     asset |-> [id |-> "devUSDCe", form |-> "mixed"],
     amount |-> <<"1", "0", "0", "0">>,
     timeout_seconds |-> None, token_name |-> None, token_version |-> None]

\* The calls made: the base one, and it with one argument changed
SignerRequests ==
    {BaseRequest}
    \cup {[BaseRequest EXCEPT !.private_key = k] :
            k \in {[hex |-> "11", prefixed |-> FALSE],
                   [hex |-> "22", prefixed |-> TRUE],
                   [hex |-> "malformed", prefixed |-> TRUE]}}
    \cup {[BaseRequest EXCEPT !.pay_to = a] :
            a \in {[id |-> "other", form |-> "lower"],
                   [id |-> "payee", form |-> "short"]}}
    \cup {[BaseRequest EXCEPT !.asset = a] :
            a \in {[id |-> "devUSDCe", form |-> "lower"],
                   [id |-> "USDCe", form |-> "checksum"]}}
    \cup {[BaseRequest EXCEPT !.amount = m] :
            m \in {<<"0", "0", "7">>, <<"-", "5">>, <<"1", ".", "5">>,
                   <<"a", "b", "c">>, <<>>}}
    \cup {[BaseRequest EXCEPT !.timeout_seconds = Some(60)]}
    \cup {[BaseRequest EXCEPT !.token_name = Some("MyToken"),
                              !.token_version = Some("2")],
          [BaseRequest EXCEPT !.token_name = Some("MyToken")]}

\* the networks a CronosFacilitator is constructed for
FacilitatorNetworks == {"cronos-testnet", "cronos-mainnet", "ethereum"}

\* generate_payment_header(**req) on a facilitator for net, drawing the nonce
\* n and reading the clock t
CallSigner(net, req, n, t) ==
    GeneratePaymentHeader(net, req.private_key, req.pay_to, req.asset, req.amount,
                          Get(req.timeout_seconds, SignerDefaultTimeout),
                          req.token_name, req.token_version, n, t)

\* a call and what it returned or raised
CallRecord(net, req, n, t) ==
    [req |-> req, n |-> n, t |-> t, out |-> CallSigner(net, req, n, t)]

SignerInit ==
    /\ facilitator_network \in FacilitatorNetworks
    /\ last = None
    /\ prev = None

\* one call of CronosFacilitator.generate_payment_header; the two latest
\* calls are kept for comparison
SignerCall(req, n, t) ==
    /\ prev = None
    /\ last' = Some(CallRecord(facilitator_network, req, n, t))
    /\ prev' = last
    /\ UNCHANGED <<facadeVars, agentVars, codecVars, probeVars, apiVars, facilitator_network>>

\* the calls kept are dropped
SignerForget ==
    /\ prev # None
    /\ last' = None
    /\ prev' = None
    /\ UNCHANGED <<facadeVars, agentVars, codecVars, probeVars, apiVars, facilitator_network>>

SignerNext ==
    \/ \E req \in SignerRequests, n \in Nonces, t \in Clock : SignerCall(req, n, t)
    \/ SignerForget

----------------------------------------------------------------------------
(* The header codec: generate_payment_header output and decode_payment_header *)

\* a header as generate_payment_header builds it for the base request
SampleHeader ==
    PaymentHeader("cronos-testnet", BaseRequest.private_key, BaseRequest.pay_to,
                  BaseRequest.asset, BaseRequest.amount, SignerDefaultTimeout,
                  None, None, 1, 0).value[1]

\* a JSON object with one member left out
WithoutMember(j, key) ==
    JObj(SelectSeq(j.members, LAMBDA m : m.key # key))
\* the header JSON with one member of its payload left out
WithoutPayloadMember(j, key) ==
    JObj([k \in DOMAIN j.members |->
            IF j.members[k].key = "payload"
            THEN [key |-> "payload", val |-> WithoutMember(j.members[k].val, key)]
            ELSE j.members[k]])

\* Texts that did not come from generate_payment_header
ForeignWires ==
    {Wire(FALSE, FALSE, TRUE, TRUE, JsonDumps(SampleHeader)),  \* wrong padding
     Wire(TRUE, TRUE, TRUE, TRUE, JsonDumps(SampleHeader)),    \* stray characters
     Wire(FALSE, TRUE, FALSE, FALSE, JNum(0)),                 \* bytes not UTF-8
     Wire(FALSE, TRUE, TRUE, FALSE, JNum(0)),                  \* text not JSON
     Wire(FALSE, TRUE, TRUE, TRUE, JNum(1)),                   \* the JSON text 1
     Wire(FALSE, TRUE, TRUE, TRUE, JObj(<<>>)),                \* the JSON text {}
     Wire(FALSE, TRUE, TRUE, TRUE, WithoutMember(JsonDumps(SampleHeader), "scheme")),
     Wire(FALSE, TRUE, TRUE, TRUE, WithoutMember(JsonDumps(SampleHeader), "payload")),
     Wire(FALSE, TRUE, TRUE, TRUE, WithoutPayloadMember(JsonDumps(SampleHeader), "nonce")),
     Wire(FALSE, TRUE, TRUE, TRUE, WithoutPayloadMember(JsonDumps(SampleHeader), "value"))}

CodecInit ==
    /\ wire = None
    /\ wireOf = None
    /\ decoded = None

\* generate_payment_header returns a header text to its caller, or raises
CodecGenerate(req, n, t) ==
    LET call == CallRecord(facilitator_network, req, n, t)
    IN /\ wire' = IF call.out.raised THEN None ELSE call.out.value
       /\ wireOf' = Some(call)
       /\ decoded' = None
       /\ UNCHANGED <<facadeVars, agentVars, signerVars, probeVars, apiVars>>

\* a header text arrives from elsewhere
CodecReceive(w) ==
    /\ wire' = Some(w)
    /\ wireOf' = None
    /\ decoded' = None
    /\ UNCHANGED <<facadeVars, agentVars, signerVars, probeVars, apiVars>>

\* decode_payment_header(wire)
CodecDecode ==
    /\ wire # None
    /\ decoded' = Some(DecodePaymentHeader(wire[1]))
    /\ UNCHANGED <<facadeVars, agentVars, signerVars, probeVars, apiVars, wire, wireOf>>

CodecNext ==
    \/ \E req \in SignerRequests, n \in Nonces, t \in Clock : CodecGenerate(req, n, t)
    \/ \E w \in ForeignWires : CodecReceive(w)
    \/ CodecDecode

----------------------------------------------------------------------------
(* simulate_swap *)

\* the dicts simulate_swap returns: can_buy and can_sell are "True", "False"
\* or "None"; the other keys are options
ProbeDict(can_buy, can_sell, error, reason, risk, rpc_url, token_address, info) ==
    [can_buy |-> can_buy, can_sell |-> can_sell, error |-> error,
     reason |-> reason, risk |-> risk, rpc_url |-> rpc_url,
     token_address |-> token_address, info |-> info]

\* known_honeypots, lower-cased
known_honeypots == {[id |-> "honeypot", form |-> "lower"]}

\* A variant of the last three checks that consults the denylist before the
\* supply
VerdictDenylistFirst(token_info, total_supply, token_address) ==
    IF AddrLower(token_address) \in known_honeypots
    THEN ProbeDict("True", "False", None,
                   Some("Token has transfer restrictions (honeypot)"),
                   Some("HIGH"), None, None, Some(token_info))
    ELSE IF total_supply = 0
    THEN ProbeDict("False", "False", None, Some("Token has zero supply"),
                   Some("HIGH"), None, None, Some(token_info))
    ELSE ProbeDict("True", "True", None, Some("Token appears to be standard ERC20"),
                   Some("LOW"), None, None, Some(token_info))

\* simulate_swap from "if total_supply == 0" on, once the token info is read
Verdict(token_info, total_supply, token_address) ==
    IF total_supply = 0
    THEN ProbeDict("False", "False", None, Some("Token has zero supply"),
                   Some("HIGH"), None, None, Some(token_info))
    ELSE IF AddrLower(token_address) \in known_honeypots
    THEN ProbeDict("True", "False", None,
                   Some("Token has transfer restrictions (honeypot)"),
                   Some("HIGH"), None, None, Some(token_info))
    ELSE ProbeDict("True", "True", None, Some("Token appears to be standard ERC20"),
                   Some("LOW"), None, None, Some(token_info))

\* simulate_swap(token_address, rpc_url), env holding the arguments and what
\* the endpoint and the contract answer
SimulateSwap(env) ==
    IF env.provider = "raises"
    THEN ProbeDict("None", "None", Some("Simulation failed: "), None, None, None,
                   Some(env.token_address), None)
    ELSE IF env.provider = "unreachable"
    THEN ProbeDict("None", "None", Some("Cannot connect to RPC"), None, None,
                   Some(env.rpc_url), None, None)
    ELSE IF ~AddrWellFormed(env.token_address)
    THEN ProbeDict("None", "None", Some("Simulation failed: "), None, None, None,
                   Some(env.token_address), None)
    ELSE IF ~env.has_code
    THEN ProbeDict("False", "False", Some("Not a contract address"), None, None,
                   None, Some(env.token_address), None)
    ELSE IF env.read # "ok"
    \* token_info becomes the error dict and total_supply stays unbound:
    \* "if total_supply == 0" raises UnboundLocalError, caught at line 151
    THEN ProbeDict("None", "None", Some("Contract interaction failed: "), None,
                   None, None, Some(env.token_address), None)
    ELSE Verdict([name |-> "name", symbol |-> "symbol",
                  total_supply |-> env.total_supply, address |-> env.token_address],
                 env.total_supply, env.token_address)

\* What a call can meet
ProbeEnvs ==
    [token_address : {[id |-> "honeypot", form |-> "checksum"],
                      [id |-> "honeypot", form |-> "lower"],
                      [id |-> "token", form |-> "checksum"],
                      [id |-> "token", form |-> "short"]},
     rpc_url : {"https://evm-t3.cronos.org"},
     provider : {"connected", "unreachable", "raises"},
     has_code : BOOLEAN,
     read : {"ok", "name raises", "totalSupply raises"},
     total_supply : {0, 1000}]

NoProbeEnv ==
    [token_address |-> [id |-> "", form |-> "short"], rpc_url |-> "",
     provider |-> "", has_code |-> FALSE, read |-> "", total_supply |-> 0]
NoProbeResult == ProbeDict("", "", None, None, None, None, None, None)

ProbeInit ==
    /\ probeEnv = NoProbeEnv
    /\ probeResult = NoProbeResult

\* one call of simulate_swap
Probe(env) ==
    /\ probeEnv' = env
    /\ probeResult' = SimulateSwap(env)
    /\ UNCHANGED <<facadeVars, agentVars, signerVars, codecVars, apiVars>>

ProbeNext == \E env \in ProbeEnvs : Probe(env)

----------------------------------------------------------------------------
(* The HTTP service: POST /validate-token and POST /x402/generate-header *)

\* "not x" for x one of True, False, None
PyNot(x) == x # "True"

\* Web3.is_address: 0x and 40 hex digits, all of one letter case or with the
\* checksum's letter case
IsAddress(a) == a.form \in {"lower", "checksum"}

\* chain_map and rpc_urls of validate_token, as sets of <<key, value>>
chain_map ==
    {<<<<"e", "t", "h", "e", "r", "e", "u", "m">>, <<"e", "t", "h", "e", "r", "e", "u", "m">>>>,
     <<<<"e", "t", "h">>, <<"e", "t", "h", "e", "r", "e", "u", "m">>>>,
     <<<<"b", "a", "s", "e">>, <<"b", "a", "s", "e">>>>,
     <<<<"c", "r", "o", "n", "o", "s">>, <<"c", "r", "o", "n", "o", "s">>>>,
     <<<<"c", "r", "o", "n", "o", "s", "-", "t", "e", "s", "t", "n", "e", "t">>, <<"c", "r", "o", "n", "o", "s", "-", "t", "e", "s", "t", "n", "e", "t">>>>,
     <<<<"a", "r", "b", "i", "t", "r", "u", "m">>, <<"a", "r", "b", "i", "t", "r", "u", "m">>>>,
     <<<<"a", "r", "b">>, <<"a", "r", "b", "i", "t", "r", "u", "m">>>>,
     <<<<"p", "o", "l", "y", "g", "o", "n">>, <<"p", "o", "l", "y", "g", "o", "n">>>>,
     <<<<"m", "a", "t", "i", "c">>, <<"p", "o", "l", "y", "g", "o", "n">>>>}
rpc_urls ==
    {<<<<"e", "t", "h", "e", "r", "e", "u", "m">>, "https://eth.llamarpc.com">>,
     <<<<"b", "a", "s", "e">>, "https://mainnet.base.org">>,
     <<<<"c", "r", "o", "n", "o", "s">>, "https://evm.cronos.org">>,
     <<<<"c", "r", "o", "n", "o", "s", "-", "t", "e", "s", "t", "n", "e", "t">>, "https://evm-t3.cronos.org">>,
     <<<<"a", "r", "b", "i", "t", "r", "u", "m">>, "https://arb1.arbitrum.io/rpc">>,
     <<<<"p", "o", "l", "y", "g", "o", "n">>, "https://polygon-rpc.com">>}
\* d.get(key), for a dict given as a set of pairs
DictGet(d, key) ==
    IF \E kv \in d : kv[1] = key
    THEN Some((CHOOSE kv \in d : kv[1] = key)[2]) ELSE None

\* an HTTP response: its status and the fields of its JSON body
ApiResponse(status, is_safe, risk_level, reason, details, can_buy, can_sell, detail, payment_header, decoded_header, net) ==
    [status |-> status, is_safe |-> is_safe, risk_level |-> risk_level,
     reason |-> reason, details |-> details, can_buy |-> can_buy,
     can_sell |-> can_sell, detail |-> detail, payment_header |-> payment_header,
     decoded |-> decoded_header, network |-> net]
\* ValidationResponse(...), returned with status 200
ValidationResponse(is_safe, risk_level, reason, details, can_buy, can_sell) ==
    ApiResponse(200, Some(is_safe), Some(risk_level), Some(reason), details,
                can_buy, can_sell, None, None, None, None)
\* raise HTTPException(status_code, detail) leaving the endpoint
HTTPException(status_code, detail) ==
    ApiResponse(status_code, None, None, None, None, "None", "None",
                Some(detail), None, None, None)

\* A variant of the analysis that looks at can_buy only
AnalyzeBuyOnly(result) ==
    IF PyNot(result.can_buy)
    THEN ValidationResponse(FALSE, "HIGH", "Token cannot be bought", Some(result),
                            result.can_buy, result.can_sell)
    ELSE ValidationResponse(TRUE, "LOW", "Token passed all safety checks",
                            Some(result), result.can_buy, result.can_sell)

\* validate_token from "Analyze results" on.  No dict simulate_swap builds
\* has a "liquidity_warning" or "high_slippage" key, so the two MEDIUM
\* branches are passed over.
Analyze(result) ==
    IF PyNot(result.can_sell)
    THEN ValidationResponse(FALSE, "HIGH", "Token cannot be sold (honeypot detected)",
                            Some(result), result.can_buy, result.can_sell)
    ELSE IF PyNot(result.can_buy)
    THEN ValidationResponse(FALSE, "HIGH", "Token cannot be bought", Some(result),
                            result.can_buy, result.can_sell)
    ELSE ValidationResponse(TRUE, "LOW", "Token passed all safety checks",
                            Some(result), result.can_buy, result.can_sell)

\* the chain name validate_token looks up, and the RPC URL it finds or None
NormalizedChain(chain) == Get(DictGet(chain_map, Lower(chain)), Lower(chain))
RpcUrl(chain) == DictGet(rpc_urls, NormalizedChain(chain))

\* The simulate_swap call of validate_token, chainEnv being what the endpoint
\* and the contract answer
ProbeOf(req, chainEnv) ==
    SimulateSwap([token_address |-> req.token_address, rpc_url |-> RpcUrl(req.chain)[1],
                  provider |-> chainEnv.provider, has_code |-> chainEnv.has_code,
                  read |-> chainEnv.read, total_supply |-> chainEnv.total_supply])

\* validate_token(req): whether simulate_swap is called, and the response
ProbeCalledBy(req, imports) ==
    imports /\ RpcUrl(req.chain) # None /\ IsAddress(req.token_address)
ValidateTokenResponse(req, chainEnv, imports) ==
    IF ~imports
    THEN HTTPException(500, "AgentShield module not available: ")
    ELSE IF RpcUrl(req.chain) = None
    THEN ValidationResponse(TRUE, "UNKNOWN", "Chain not supported for validation",
                            None, "None", "None")
    ELSE IF ~IsAddress(req.token_address)
    THEN ValidationResponse(FALSE, "HIGH", "Invalid token address format",
                            None, "None", "None")
    ELSE Analyze(ProbeOf(req, chainEnv))

\* truthiness of the four required fields of a generate-header request: a
\* missing key gives None, an empty string is falsy
AllRequired(request) ==
    /\ request.private_key # None /\ request.private_key[1].hex # ""
    /\ request.pay_to # None /\ request.pay_to[1].id # ""
    /\ request.asset # None /\ request.asset[1].id # ""
    /\ request.amount # None /\ request.amount[1] # <<>>

\* the except clauses of generate_x402_header, for an exception raised inside
\* its try block: HTTPException is an Exception and not an ImportError
ExceptClauses(exc) ==
    IF exc.type = "ImportError"
    THEN HTTPException(500, "Cronos Facilitator not available. Install required dependencies.")
    ELSE HTTPException(500, "str(e)")

\* generate_x402_header(request), drawing the nonce n and reading the clock t
GenerateX402HeaderResponse(request, imports, n, t) ==
    LET net == Get(request.network, "cronos-testnet")
        timeout_seconds == Get(request.timeout_seconds, 300)
    IN IF ~imports
       THEN ExceptClauses([type |-> "ImportError"])
       ELSE IF ~AllRequired(request)
       THEN ExceptClauses([type |-> "HTTPException", status_code |-> 400,
                           detail |-> "Missing required fields: private_key, pay_to, asset, amount"])
       ELSE LET payment_header ==
                    GeneratePaymentHeader(net, request.private_key[1], request.pay_to[1],
                                          request.asset[1], request.amount[1],
                                          timeout_seconds, None, None, n, t)
            IN IF payment_header.raised
               THEN ExceptClauses(payment_header.exc)
               ELSE ApiResponse(200, None, None, None, None, "None", "None", None,
                                payment_header.value,
                                Some(DecodePaymentHeader(payment_header.value[1]).value[1]),
                                Some(net))

\* The requests made
TokenRequests ==
    [token_address : {[id |-> "honeypot", form |-> "checksum"],
                      [id |-> "honeypot", form |-> "lower"],
                      [id |-> "token", form |-> "checksum"],
                      [id |-> "token", form |-> "mixed"],
                      [id |-> "token", form |-> "short"]},
     chain : {<<"c", "r", "o", "n", "o", "s", "-", "t", "e", "s", "t", "n", "e", "t">>,
              <<"C", "r", "o", "n", "o", "s", "-", "T", "e", "s", "t", "n", "e", "t">>,
              <<"e", "t", "h">>,
              <<"s", "o", "l", "a", "n", "a">>},
     amount : {<<"1", ".", "0">>}]
ChainEnvs ==
    [provider : {"connected", "unreachable", "raises"}, has_code : BOOLEAN,
     read : {"ok", "name raises"}, total_supply : {0, 1000}]
BaseHeaderRequest ==
    [private_key |-> Some(BaseRequest.private_key), pay_to |-> Some(BaseRequest.pay_to),
     asset |-> Some(BaseRequest.asset), amount |-> Some(BaseRequest.amount),
     network |-> None, timeout_seconds |-> None]
HeaderRequests ==
    {BaseHeaderRequest,
     [BaseHeaderRequest EXCEPT !.network = Some("cronos-mainnet")],
     [BaseHeaderRequest EXCEPT !.timeout_seconds = Some(60)],
     [BaseHeaderRequest EXCEPT !.private_key = None],
     [BaseHeaderRequest EXCEPT !.private_key = Some([hex |-> "", prefixed |-> FALSE])],
     [BaseHeaderRequest EXCEPT !.private_key = Some([hex |-> "malformed", prefixed |-> TRUE])],
     [BaseHeaderRequest EXCEPT !.pay_to = None],
     [BaseHeaderRequest EXCEPT !.pay_to = Some([id |-> "", form |-> "short"])],
     [BaseHeaderRequest EXCEPT !.asset = None],
     [BaseHeaderRequest EXCEPT !.asset = Some([id |-> "", form |-> "short"])],
     [BaseHeaderRequest EXCEPT !.amount = None],
     [BaseHeaderRequest EXCEPT !.amount = Some(<<>>)]}

NoApiResponse ==
    ApiResponse(0, None, None, None, None, "None", "None", None, None, None, None)

\* no request in progress
NoApiRequest == [endpoint |-> "", body |-> None, imports |-> TRUE, chain |-> None]

ApiInit ==
    /\ apiRequest = NoApiRequest
    /\ apiProbe = None
    /\ apiResponse = NoApiResponse

\* POST /validate-token; imports tells whether the modules the endpoint
\* imports are installed
ValidateToken(req, chainEnv, imports) ==
    /\ apiRequest = NoApiRequest
    /\ apiRequest' = [endpoint |-> "/validate-token", body |-> Some(req),
                      imports |-> imports, chain |-> Some(chainEnv)]
    /\ apiProbe' = IF ProbeCalledBy(req, imports)
                   THEN Some(ProbeOf(req, chainEnv)) ELSE None
    /\ apiResponse' = ValidateTokenResponse(req, chainEnv, imports)
    /\ UNCHANGED <<facadeVars, agentVars, signerVars, codecVars, probeVars>>

\* POST /x402/generate-header
GenerateX402Header(request, imports, n, t) ==
    /\ apiRequest = NoApiRequest
    /\ apiRequest' = [endpoint |-> "/x402/generate-header", body |-> Some(request),
                      imports |-> imports, chain |-> None]
    /\ apiProbe' = None
    /\ apiResponse' = GenerateX402HeaderResponse(request, imports, n, t)
    /\ UNCHANGED <<facadeVars, agentVars, signerVars, codecVars, probeVars>>

\* the response is sent and the request is over
ApiRespond ==
    /\ apiRequest # NoApiRequest
    /\ apiRequest' = NoApiRequest
    /\ apiProbe' = None
    /\ apiResponse' = NoApiResponse
    /\ UNCHANGED <<facadeVars, agentVars, signerVars, codecVars, probeVars>>

ApiNext ==
    \/ \E req \in TokenRequests, chainEnv \in ChainEnvs, imports \in BOOLEAN :
          ValidateToken(req, chainEnv, imports)
    \/ \E request \in HeaderRequests, imports \in BOOLEAN, n \in Nonces, t \in Clock :
          GenerateX402Header(request, imports, n, t)
    \/ ApiRespond

----------------------------------------------------------------------------
(* Specifications *)

Init == FacadeInit /\ AgentInit /\ SignerInit /\ CodecInit /\ ProbeInit /\ ApiInit

\* the components a specification leaves uncalled
FacadeQuiet == FacadeInit /\ private_key = [hex |-> "11", prefixed |-> TRUE]
AgentQuiet ==
    /\ AgentInit
    /\ policy_engine = "PolicyEngine"
    /\ enable_validation = TRUE
    /\ agent_network = "cronos-testnet"
SignerQuiet == SignerInit /\ facilitator_network = "cronos-testnet"

\* SafeFacilitator alone
FacadeOnlyInit ==
    /\ FacadeInit
    /\ ApiInit
    /\ AgentQuiet
    /\ SignerQuiet
    /\ CodecInit
    /\ ProbeInit
FacadeSpec == FacadeOnlyInit /\ [][FacadeNext]_vars

\* SafeCryptoComAgent alone
AgentOnlyInit ==
    /\ AgentInit
    /\ ApiInit
    /\ FacadeQuiet
    /\ SignerQuiet
    /\ CodecInit
    /\ ProbeInit
AgentSpec == AgentOnlyInit /\ [][AgentNext]_vars

\* CronosFacilitator.generate_payment_header called directly
SignerOnlyInit ==
    /\ SignerInit
    /\ ApiInit
    /\ FacadeQuiet
    /\ AgentQuiet
    /\ CodecInit
    /\ ProbeInit
SignerSpec == SignerOnlyInit /\ [][SignerNext]_vars

\* header texts generated, received and decoded
CodecOnlyInit ==
    /\ SignerInit
    /\ ApiInit
    /\ CodecInit
    /\ FacadeQuiet
    /\ AgentQuiet
    /\ ProbeInit
CodecSpec == CodecOnlyInit /\ [][CodecNext]_vars

\* simulate_swap alone
ProbeOnlyInit ==
    /\ ProbeInit
    /\ ApiInit
    /\ FacadeQuiet
    /\ AgentQuiet
    /\ SignerQuiet
    /\ CodecInit
ProbeSpec == ProbeOnlyInit /\ [][ProbeNext]_vars

\* generate_safe_payment_header called by several callers at once, each with
\* a request of its own
CallerPayTo(c) == [id |-> "payee" \o ToString(c), form |-> "mixed"]
CallerAsset(c) == [id |-> "asset" \o ToString(c), form |-> "lower"]
CallerAmount(c) == NatDigits(c) \o <<"0", "0", "0">>
ConcurrentNext ==
    \/ \E c \in Calls, x \in Contexts :
          SafeBegin(c, CallerPayTo(c), CallerAsset(c), CallerAmount(c), x)
    \/ \E c \in Calls, vr \in ValidationResults :
          ~ValidationPassed(vr) /\ SafeResume(c, vr, 1, 0)
    \/ \E c \in Calls, vr \in ValidationResults, n \in Nonces, t \in Clock :
          ValidationPassed(vr) /\ SafeResume(c, vr, n, t)
    \/ \E c \in Calls : SafeValidationRaises(c)
    \/ \E c \in Calls : Finish(c)
ConcurrentSpec == FacadeOnlyInit /\ [][ConcurrentNext]_vars

\* the HTTP service alone
ApiOnlyInit ==
    /\ ApiInit
    /\ FacadeQuiet
    /\ AgentQuiet
    /\ SignerQuiet
    /\ CodecInit
    /\ ProbeInit
ApiSpec == ApiOnlyInit /\ [][ApiNext]_vars

Next == FacadeNext \/ AgentNext \/ SignerNext \/ CodecNext \/ ProbeNext \/ ApiNext
Spec == Init /\ [][Next]_vars

----------------------------------------------------------------------------
(* Properties of SafeFacilitator, under FacadeSpec *)

SafeMethod == "generate_safe_payment_header"
UnsafeMethod == "generate_unsafe_payment_header"

\* a call of generate_safe_payment_header that has returned its dict
SafeReturned(c) == callPc[c] = "returned" /\ callArgs[c].method = SafeMethod

\* the dict validate_transaction returned to a returned safe call
ValidationOf(c) == callResult[c].validation[1]

\* C1: the signer is invoked only by generate_safe_payment_header after
\* validate_transaction returned approved = True, or by
\* generate_unsafe_payment_header; a safe call whose validation result is not
\* approved (the key missing included) returns a rejection and has not invoked
\* the signer, and no safe call invokes it while validation is pending.
C1_SignerOnlyAfterApproval ==
    \A c \in Calls :
        /\ \A k \in DOMAIN callSigner[c] :
              \/ /\ callSigner[c][k].via = SafeMethod
                 /\ callArgs[c].method = SafeMethod
                 /\ callSigner[c][k].approved = Some(TRUE)
              \/ /\ callSigner[c][k].via = UnsafeMethod
                 /\ callArgs[c].method = UnsafeMethod
        /\ callPc[c] = "awaiting" => callSigner[c] = <<>>
        /\ (SafeReturned(c) /\ ValidationOf(c).approved # Some(TRUE)) =>
              /\ callSigner[c] = <<>>
              /\ callResult[c].approved = Some(FALSE)
              /\ callResult[c].payment_header = None

\* one safe call rejected on a result without "approved", with the signer not
\* invoked, beside a safe call that invoked the signer after approval
C1_Witness ==
    \E c, d \in Calls :
        /\ SafeReturned(c)
        /\ ValidationOf(c).approved = None
        /\ callSigner[c] = <<>>
        /\ SafeReturned(d)
        /\ ValidationOf(d).approved = Some(TRUE)
        /\ Len(callSigner[d]) = 1

\* C2: when the pipeline approves and the signer succeeds, the safe call
\* returns approved = True with a payment_header.
C2_ApprovedAndSignedReturnsHeader ==
    \A c \in Calls :
        (/\ SafeReturned(c)
         /\ ValidationOf(c).approved = Some(TRUE)
         /\ callSigner[c] # <<>>
         /\ ~callSigner[c][1].raised) =>
            /\ callResult[c].approved = Some(TRUE)
            /\ Has(callResult[c].payment_header)

\* C3: when the pipeline approves and the signer raises, the safe call returns
\* approved = False without a payment_header, with the signer's error under
\* "error" and in the reason, and with the validation it passed still shown
\* as approved.
C3_SigningFailureReported ==
    \A c \in Calls :
        (/\ SafeReturned(c)
         /\ callSigner[c] # <<>>
         /\ callSigner[c][1].raised) =>
            /\ callResult[c].approved = Some(FALSE)
            /\ callResult[c].payment_header = None
            /\ Has(callResult[c].error)
            /\ Has(callResult[c].reason)
            /\ callResult[c].reason[1] =
                  <<"Failed to generate payment header: ", callResult[c].error[1]>>
            /\ ValidationOf(c).approved = Some(TRUE)

\* an approved safe call whose signer raised has returned
C3_Witness ==
    \E c \in Calls :
        /\ SafeReturned(c)
        /\ ValidationOf(c).approved = Some(TRUE)
        /\ callSigner[c] # <<>>
        /\ callSigner[c][1].raised

\* a reason that is not the empty text
NonEmptyReason(r) == Has(r) /\ r[1] # <<>> /\ \A k \in DOMAIN r[1] : r[1][k] # ""

C5_RejectionLeavesContext ==
    \A c \in Calls :
        (/\ SafeReturned(c)
         /\ callResult[c].approved = Some(FALSE)
         /\ callArgs[c].context # None) =>
            heap[callArgs[c].context] = callCtxBefore[c]

\* C10: no exception of validate_transaction leaves
\* generate_safe_payment_header: the call returns a dict.
C10_ValidationErrorNotPropagated ==
    \A c \in Calls :
        callArgs[c].method = SafeMethod =>
            /\ callPc[c] # "raised"
            /\ callResult[c].kind # "raise"

\* the dict validate_transaction holds for call c, as it reads it now
ValidationContext(c) == heap[callValidation[c].context]

\* C24: while a call waits for its validation, the context that validation
\* holds carries the call's own recipient, token and amount, whatever other
\* calls have begun meanwhile and whatever context dicts the callers passed.
C24_CallsIndependent ==
    \A c \in Calls :
        callPc[c] = "awaiting" =>
            /\ ValidationContext(c).recipient = callArgs[c].pay_to
            /\ ValidationContext(c).token = callArgs[c].asset
            /\ ValidationContext(c).amount = callArgs[c].amount

----------------------------------------------------------------------------
(* Properties of SafeCryptoComAgent, under AgentSpec *)

\* the stages in the order _validate_with_agentshield runs them
StageOrder ==
    <<"LLM Intent Judge", "Policy Validation", "Honeypot Detection", "LLM Analysis">>
StageIndex(st) == CHOOSE k \in DOMAIN StageOrder : StageOrder[k] = st
StagesSeen == {stagesRun[k] : k \in DOMAIN stagesRun}

\* whether a stage passes the intent
StagePasses(st, i) ==
    CASE st = "LLM Intent Judge" -> Stage1LLMJudge(i).passed
      [] st = "Policy Validation" -> Stage2Policy(i).passed
      [] st = "Honeypot Detection" -> Stage3Honeypot(i).passed
      [] OTHER -> TRUE

\* _validate_with_agentshield has returned its verdict
ValidationDone ==
    /\ agentPc \in {"executing", "returned"}
    /\ entry = "validate" \/ enable_validation

\* C6: the stages run in the order Intent Judge, Policy Validation, Honeypot
\* Detection, final analysis, each at most once; every stage that ran before
\* the last one passed; a blocked verdict names as stage_failed the last
\* stage that ran, which is the first that failed; an approved verdict ends
\* with the final analysis.
C6_StagesInOrderShortCircuit ==
    /\ \A j, k \in DOMAIN stagesRun :
          j < k => StageIndex(stagesRun[j]) < StageIndex(stagesRun[k])
    /\ \A k \in DOMAIN stagesRun : stagesRun[k] \in {StageOrder[j] : j \in DOMAIN StageOrder}
    /\ \A k \in DOMAIN stagesRun :
          k < Len(stagesRun) => StagePasses(stagesRun[k], intent)
    /\ ValidationDone =>
          IF validation.approved
          THEN /\ validation.stage_failed = None
               /\ stagesRun # <<>>
               /\ stagesRun[Len(stagesRun)] = "LLM Analysis"
               /\ \A k \in DOMAIN stagesRun : StagePasses(stagesRun[k], intent)
          ELSE /\ stagesRun # <<>>
               /\ validation.stage_failed = Some(stagesRun[Len(stagesRun)])
               /\ ~StagePasses(stagesRun[Len(stagesRun)], intent)

\* a transfer blocked by Policy Validation right after the Intent Judge
C6_Witness ==
    /\ ValidationDone
    /\ validation.stage_failed = Some("Policy Validation")
    /\ stagesRun = <<"LLM Intent Judge", "Policy Validation">>

\* C7: Honeypot Detection runs only for a swap or buy intent, it has run in
\* every validation of a swap or buy intent that returned, and only such an
\* intent is blocked by it.
C7_HoneypotOnlyForSwapOrBuy ==
    /\ "Honeypot Detection" \in StagesSeen => intent.action \in {"swap", "buy"}
    /\ (ValidationDone /\ intent.action \in {"swap", "buy"}) =>
          "Honeypot Detection" \in StagesSeen
    /\ validation.stage_failed = Some("Honeypot Detection") =>
          intent.action \in {"swap", "buy"}

\* a buy intent validated with Honeypot Detection run
C7_Witness ==
    /\ ValidationDone
    /\ intent.action = "buy"
    /\ "Honeypot Detection" \in StagesSeen

\* C8: a failure of the Intent Judge stage never aborts a validation: no
\* exception leaves the entry method.
C8_JudgeFailureNeverAborts ==
    /\ agentPc # "raised"
    /\ agentResult.kind # "raise"

\* C9: with policy_engine = None no validation approves and nothing is
\* executed.
C9_NoEngineNoApproval ==
    (policy_engine = "None" /\ enable_validation) =>
        /\ ~validation.approved
        /\ executed = None

\* a call of execute has parsed its command
Parsed == entry = "execute" /\ intent # NoIntent
\* kw occurs in s in some letter case, kw given in lower and in upper case
KeywordIn(s, lo, up) ==
    \E i \in 1..(Len(s) - Len(lo) + 1) :
        \A j \in 1..Len(lo) : s[i + j - 1] \in {lo[j], up[j]}
TransferWord(s) ==
    \/ KeywordIn(s, <<"s", "e", "n", "d">>, <<"S", "E", "N", "D">>)
    \/ KeywordIn(s, <<"t", "r", "a", "n", "s", "f", "e", "r">>,
                    <<"T", "R", "A", "N", "S", "F", "E", "R">>)
SwapWord(s) ==
    \/ KeywordIn(s, <<"b", "u", "y">>, <<"B", "U", "Y">>)
    \/ KeywordIn(s, <<"s", "w", "a", "p">>, <<"S", "W", "A", "P">>)

\* C22: a command containing "send" or "transfer" in any letter case is
\* parsed as a transfer, even when it also contains "buy" or "swap";
\* otherwise one containing "buy" or "swap" is parsed as a swap; every other
\* command is parsed as a query holding the command unchanged.  The intent
\* holds the agent's network.
C22_IntentClassification ==
    Parsed =>
        /\ intent.action = IF TransferWord(command) THEN "transfer"
                           ELSE IF SwapWord(command) THEN "swap" ELSE "query"
        /\ intent.action = "query" => intent.query = Some(command)
        /\ intent.action # "query" => intent.query = None
        /\ intent.network = agent_network

C22_Witness ==
    /\ Parsed
    /\ TransferWord(command) /\ SwapWord(command)
    /\ intent.action = "transfer"
    /\ agent_network = "cronos-mainnet"

\* (\d+(?:\.\d+)?)\s*(\w+) matches somewhere in s: a digit whose next
\* character after any whitespace is a word character
HasAmountPair(s) ==
    \E i \in DOMAIN s, p \in DOMAIN s :
        /\ s[i] \in Digits
        /\ p > i
        /\ s[p] \in WordChars
        /\ \A k \in (i + 1)..(p - 1) : s[k] \in Whitespace

\* C23: a command without an amount-and-token pair is parsed with amount
\* "10" and token "USDC" when it is a transfer, with amount "100" and token
\* "SCAM" when it is a swap; every transfer and swap intent execute parses
\* holds a non-empty amount and token.
C23_DefaultAmounts ==
    (Parsed /\ intent.action \in {"transfer", "swap"}) =>
        /\ Has(intent.amount) /\ intent.amount[1] # <<>>
        /\ Has(intent.token) /\ intent.token[1] # <<>>
        /\ (~HasAmountPair(command) /\ intent.action = "transfer") =>
              /\ intent.amount = Some(<<"1", "0">>)
              /\ intent.token = Some(<<"U", "S", "D", "C">>)
        /\ (~HasAmountPair(command) /\ intent.action = "swap") =>
              /\ intent.amount = Some(<<"1", "0", "0">>)
              /\ intent.token = Some(<<"S", "C", "A", "M">>)
              /\ intent.to_token = intent.token
        /\ HasAmountPair(command) =>
              /\ Contains(command, intent.amount[1])
              /\ Contains(Upper(command), intent.token[1])

C23_Witness ==
    /\ Parsed
    /\ ~HasAmountPair(command)
    /\ intent.action = "swap"
    /\ intent.amount = Some(<<"1", "0", "0">>)

\* _validate_with_agentshield has returned its verdict on the intent
VerdictReached ==
    /\ entry \in {"execute", "validate"}
    /\ entry = "execute" => enable_validation
    /\ agentPc \in {"executing", "returned"}
RejectedByPolicy == validation.stage_failed = Some("Policy Validation")
\* the decimal s (digits, or digits.digits) is greater than the natural n
DecimalExceeds(s, n) ==
    LET dot == {i \in DOMAIN s : s[i] = "."}
        whole == IF dot = {} THEN s ELSE SubSeq(s, 1, SetMin(dot) - 1)
        frac == IF dot = {} THEN <<>> ELSE SubSeq(s, SetMin(dot) + 1, Len(s))
        w == DropLeadingZeros(whole)
        l == NatDigits(n)
    IN \/ Len(w) > Len(l)
       \/ Len(w) = Len(l) /\ DigitsGreater(w, l)
       \/ w = l /\ \E i \in DOMAIN frac : frac[i] # "0"

\* C25: with a policy engine, a transfer intent is rejected with failed stage
\* "Policy Validation" exactly when its amount is greater than 100; swap and
\* query intents are not rejected by this stage; a rejected intent is not
\* executed.
C25_PolicyLimit ==
    (VerdictReached /\ policy_engine # "None") =>
        /\ intent.action = "transfer" =>
              (RejectedByPolicy <=> DecimalExceeds(intent.amount[1], 100))
        /\ intent.action # "transfer" => ~RejectedByPolicy
        /\ RejectedByPolicy => executed = None

\* execute was called with validation enabled
ValidatedExecute == entry = "execute" /\ enable_validation

\* C27: with validation enabled, execute calls _execute_transaction only
\* once _validate_with_agentshield has returned approved True for the
\* command's intent; a blocked command returns approved False with the
\* verdict's reason and failed stage and no tx_hash, and its intent is not
\* executed.
C27_ExecuteOnlyAfterApproval ==
    ValidatedExecute =>
        /\ executed # None =>
              /\ validation.approved
              /\ executed = Some(intent)
              /\ intent = ParseIntent(command, agent_network)
        /\ (agentPc = "returned" /\ ~validation.approved) =>
              /\ executed = None
              /\ agentResult.approved = Some(FALSE)
              /\ agentResult.reason = Some(validation.reason)
              /\ validation.stage_failed # None
              /\ agentResult.stage_failed = validation.stage_failed
              /\ agentResult.tx_hash = None
              /\ agentResult.message = None
        /\ (agentPc = "returned" /\ agentResult.approved = Some(TRUE)) =>
              validation.approved /\ executed # None

C27_Witness ==
    /\ ValidatedExecute
    /\ agentPc = "returned"
    /\ agentResult.approved = Some(FALSE)
    /\ agentResult.stage_failed = Some("Honeypot Detection")
    /\ executed = None

----------------------------------------------------------------------------
(* Properties of the header codec, under CodecSpec *)

\* the header text held came from generate_payment_header and was decoded
DecodedOwnHeader == wire # None /\ wireOf # None /\ decoded # None

\* the payment_header dict that the call behind the text encoded
EncodedHeader ==
    PaymentHeader(facilitator_network, wireOf[1].req.private_key, wireOf[1].req.pay_to,
                  wireOf[1].req.asset, wireOf[1].req.amount,
                  Get(wireOf[1].req.timeout_seconds, SignerDefaultTimeout),
                  wireOf[1].req.token_name, wireOf[1].req.token_version,
                  wireOf[1].n, wireOf[1].t).value[1]

\* "0x" followed by lowercase hex digits
LowerHex0x(x) == x.prefix = "0x" /\ x.hex = "lower"

\* C11: decode_payment_header applied to a header generate_payment_header
\* returned gives back the dict that was encoded, field for field;
\* payload.value is the caller's amount string character for character, and
\* nonce and signature are "0x"-prefixed lowercase hex.
C11_RoundTrip ==
    DecodedOwnHeader =>
        /\ ~decoded[1].raised
        /\ decoded[1].value[1] = EncodedHeader
        /\ decoded[1].value[1].payload.value = wireOf[1].req.amount
        /\ LowerHex0x(decoded[1].value[1].payload.nonce)
        /\ LowerHex0x(decoded[1].value[1].payload.signature)

\* a header for the amount "007" was generated and decoded
C11_Witness ==
    /\ DecodedOwnHeader
    /\ wireOf[1].req.amount = <<"0", "0", "7">>
    /\ ~decoded[1].raised

\* the keys of a JSON object
MemberKeys(j) == {j.members[k].key : k \in DOMAIN j.members}

\* JSON text that spells a credential with every required field
CompleteCredential(j) ==
    /\ j.t = "obj"
    /\ {HeaderKeys[k] : k \in DOMAIN HeaderKeys} \subseteq MemberKeys(j)
    /\ LET payload == j.members[CHOOSE k \in DOMAIN j.members :
                                    j.members[k].key = "payload"].val
       IN /\ payload.t = "obj"
          /\ {PayloadKeys[k] : k \in DOMAIN PayloadKeys} \subseteq MemberKeys(payload)

\* C12: decode_payment_header raises when its input is not valid base64, is
\* not valid JSON or lacks a required field: whatever it returns is a
\* credential with every required field, decoded from valid base64.
C12_MalformedCredentialRejected ==
    (decoded # None /\ ~decoded[1].raised) =>
        /\ ~wire[1].stray
        /\ wire[1].padded
        /\ wire[1].bytes.is_json
        /\ CompleteCredential(wire[1].bytes.doc)

----------------------------------------------------------------------------
(* Properties of CronosFacilitator, under SignerSpec *)

\* the calls kept, and those of them that returned a header
KeptCalls == {r[1] : r \in {x \in {last, prev} : x # None}}
SignedCalls == {r \in KeptCalls : ~r.out.raised}
\* the credential a call returned, as decode_payment_header gives it back
Credential(r) == DecodePaymentHeader(r.out.value[1]).value[1]
\* the EIP-712 domain and message the signature of a credential was made over
SignedDomain(r) == Credential(r).payload.signature.bytes.domain
SignedMessage(r) == Credential(r).payload.signature.bytes.message

\* C13: every credential has validAfter = 0 and validBefore = the clock read
\* by the call plus timeout_seconds, 300 when the caller passes none; the
\* signed message holds the same two values as the payload.
C13_ValidityWindow ==
    \A r \in SignedCalls :
        LET timeout == IF r.req.timeout_seconds = None
                       THEN 300 ELSE r.req.timeout_seconds[1]
        IN /\ Credential(r).payload.validAfter = 0
           /\ Credential(r).payload.validBefore = r.t + timeout
           /\ SignedMessage(r).validAfter = Credential(r).payload.validAfter
           /\ SignedMessage(r).validBefore = Credential(r).payload.validBefore

C13_Witness ==
    /\ \E r \in SignedCalls : r.req.timeout_seconds = None /\ r.t = MaxClock
    /\ \E r \in SignedCalls : r.req.timeout_seconds = Some(60)

\* the timeout_seconds a call ran with
TimeoutOf(r) == Get(r.req.timeout_seconds, SignerDefaultTimeout)

\* C14 as stated: a credential returned for a well-formed transfer decodes to
\* scheme "eip3009" and has validBefore - validAfter equal to timeout_seconds.
C14_WindowIsTimeout ==
    \A r \in SignedCalls :
        /\ Credential(r).scheme = "eip3009"
        /\ Credential(r).payload.validBefore - Credential(r).payload.validAfter
             = TimeoutOf(r)

\* C14, amended: a credential returned for a well-formed transfer decodes to
\* scheme "eip3009", and its validBefore - validAfter is the clock read at
\* signing plus timeout_seconds: validBefore is an absolute time, and
\* validAfter is 0.
C14_WindowIsClockPlusTimeout ==
    \A r \in SignedCalls :
        /\ Credential(r).scheme = "eip3009"
        /\ Credential(r).payload.validBefore - Credential(r).payload.validAfter
             = r.t + TimeoutOf(r)

C14_Witness ==
    \E r \in SignedCalls :
        /\ r.req = BaseRequest
        /\ r.t > 0
        /\ Credential(r).scheme = "eip3009"

\* C15: payload.from is the address of the signing key, the same whether
\* the key is given with or without "0x" and whatever pay_to, asset, amount,
\* timeout, token name and version are; the signed message holds the same
\* address, and the call takes no "from" argument.
C15_FromIsSignerAddress ==
    /\ \A r \in SignedCalls :
          /\ Credential(r).payload.from =
               [id |-> "account_" \o r.req.private_key.hex, form |-> "checksum"]
          /\ SignedMessage(r).from = Credential(r).payload.from
          /\ "from" \notin DOMAIN r.req
    /\ \A r, q \in SignedCalls :
          (r.req.private_key.hex = q.req.private_key.hex)
             <=> (Credential(r).payload.from = Credential(q).payload.from)

C15_Witness ==
    /\ last # None /\ prev # None
    /\ ~last[1].out.raised /\ ~prev[1].out.raised
    /\ last[1].req.private_key = [hex |-> "11", prefixed |-> FALSE]
    /\ prev[1].req.private_key = [hex |-> "11", prefixed |-> TRUE]
    /\ prev[1].req.pay_to # last[1].req.pay_to

\* two calls kept, both of which returned a credential
TwoSigned == last # None /\ prev # None /\ ~last[1].out.raised /\ ~prev[1].out.raised

Resolving(r) == r.req.token_name = None /\ r.req.token_version = None
\* the asset of a call is in the table of the facilitator's network
Listed(r) == \E c \in TOKENS(facilitator_network) : c.address.id = r.req.asset.id
\* the name and version a signature's domain holds
DomainName(r) == <<SignedDomain(r).name, SignedDomain(r).version>>
FallbackName == <<"Bridged USDC (Stargate)", "1">>

BadAmounts == {<<"-", "5">>, <<"1", ".", "5">>, <<"a", "b", "c">>, <<>>}

\* C18: a call whose amount does not spell a non-negative integer raises and
\* returns no credential, the exception being the one of the amount when the
\* key and the addresses are good; a call with a malformed key raises the
\* key's exception and returns no credential.
C18_BadAmountOrKeyRaises ==
    \A r \in KeptCalls :
        /\ r.req.amount \in BadAmounts =>
              /\ r.out.raised /\ r.out.value = None
              /\ r.req.private_key.hex # "malformed" =>
                    r.out.exc \in
                       {[type |-> "ValueError", msg |-> "invalid literal for int() with base 10"],
                        [type |-> "ValueOutOfBounds", msg |-> "Cannot be encoded in 256 bits"]}
        /\ r.req.private_key.hex = "malformed" =>
              /\ r.out.raised /\ r.out.value = None
              /\ r.out.exc = [type |-> "ValueError",
                              msg |-> "The private key must be exactly 32 bytes long"]

C18_Witness ==
    /\ last # None /\ prev # None
    /\ last[1].req.amount = <<"-", "5">> /\ last[1].out.raised
    /\ prev[1].req.private_key.hex = "malformed" /\ prev[1].out.raised

----------------------------------------------------------------------------
(* Properties of simulate_swap, under ProbeSpec *)

ProbeCalled == probeEnv # NoProbeEnv
\* what the call met: an endpoint that answered, code at the address, token
\* metadata that could be read, an address of the denylist in any letter case
Connected == probeEnv.provider = "connected" /\ probeEnv.token_address.form # "short"
Readable == Connected /\ probeEnv.has_code /\ probeEnv.read = "ok"
Denylisted == probeEnv.token_address.id = "honeypot"
\* the verdict of a result
VerdictOf(res) == <<res.can_buy, res.can_sell, res.risk>>

\* C19: the checks run in the order connectivity, contract existence, zero
\* supply, denylist, default, and the first that matches gives the verdict:
\* an endpoint that is not connected is reported before anything is read, an
\* address without code before its supply or the denylist is looked at; zero
\* supply gives False/False HIGH even for a denylisted address; a denylisted
\* address with other supply gives True/False HIGH; True/True LOW is returned
\* exactly when none of the earlier checks matched.
C19_ChecksInOrder ==
    ProbeCalled =>
        /\ probeEnv.provider = "unreachable" =>
              /\ probeResult.error = Some("Cannot connect to RPC")
              /\ probeResult.can_buy = "None" /\ probeResult.can_sell = "None"
        /\ (Connected /\ ~probeEnv.has_code) =>
              /\ probeResult.error = Some("Not a contract address")
              /\ probeResult.can_buy = "False" /\ probeResult.can_sell = "False"
        /\ (Readable /\ probeEnv.total_supply = 0) =>
              /\ VerdictOf(probeResult) = <<"False", "False", Some("HIGH")>>
              /\ probeResult.reason = Some("Token has zero supply")
        /\ (Readable /\ probeEnv.total_supply # 0 /\ Denylisted) =>
              /\ VerdictOf(probeResult) = <<"True", "False", Some("HIGH")>>
              /\ probeResult.reason = Some("Token has transfer restrictions (honeypot)")
        /\ (VerdictOf(probeResult) = <<"True", "True", Some("LOW")>>)
              <=> (Readable /\ probeEnv.total_supply # 0 /\ ~Denylisted)

C19_Witness ==
    /\ ProbeCalled /\ Readable /\ Denylisted
    /\ probeEnv.token_address.form = "checksum"
    /\ probeEnv.total_supply = 0
    /\ VerdictOf(probeResult) = <<"False", "False", Some("HIGH")>>

\* C20: every result of simulate_swap has a "risk" entry among LOW, MEDIUM,
\* HIGH and UNKNOWN; an endpoint that cannot be reached gives can_buy and
\* can_sell None with risk UNKNOWN, an address without code gives False and
\* False with risk HIGH.
C20_EveryResultHasRisk ==
    ProbeCalled =>
        /\ probeResult.risk \in {Some("LOW"), Some("MEDIUM"), Some("HIGH"), Some("UNKNOWN")}
        /\ probeEnv.provider = "unreachable" =>
              VerdictOf(probeResult) = <<"None", "None", Some("UNKNOWN")>>
        /\ (Connected /\ ~probeEnv.has_code) =>
              VerdictOf(probeResult) = <<"False", "False", Some("HIGH")>>

\* C21: when reading name, symbol or total supply throws for an address that
\* has code and is not on the denylist, simulate_swap returns can_buy True,
\* can_sell True with risk LOW.
C21_UnreadableTokenTradable ==
    (/\ ProbeCalled /\ Connected /\ probeEnv.has_code
     /\ probeEnv.read # "ok" /\ ~Denylisted)
        => VerdictOf(probeResult) = <<"True", "True", Some("LOW")>>

----------------------------------------------------------------------------
(* Properties of the HTTP service, under ApiSpec *)

\* validate_token called simulate_swap, and what it returned
Probed == apiRequest.endpoint = "/validate-token" /\ apiProbe # None

\* C26: whenever simulate_swap reports can_sell False to validate_token, the
\* response of POST /validate-token has risk_level HIGH and is_safe false.
C26_UnsellableIsHighRisk ==
    (Probed /\ apiProbe[1].can_sell = "False") =>
        /\ apiResponse.status = 200
        /\ apiResponse.risk_level = Some("HIGH")
        /\ apiResponse.is_safe = Some(FALSE)
        /\ apiResponse.can_sell = "False"

C26_Witness ==
    /\ Probed
    /\ apiRequest.body[1].token_address = [id |-> "honeypot", form |-> "checksum"]
    /\ NormalizedChain(apiRequest.body[1].chain)
         = <<"c", "r", "o", "n", "o", "s", "-", "t", "e", "s", "t", "n", "e", "t">>
    /\ apiProbe[1].can_buy = "True" /\ apiProbe[1].can_sell = "False"
    /\ apiResponse.risk_level = Some("HIGH")

\* C28: when simulate_swap cannot reach the RPC endpoint and reports can_buy
\* and can_sell None, the response of POST /validate-token has is_safe true
\* and risk_level UNKNOWN.
C28_UnreachableFailsOpen ==
    (/\ Probed
     /\ apiRequest.chain[1].provider = "unreachable"
     /\ apiProbe[1].can_buy = "None" /\ apiProbe[1].can_sell = "None")
        => /\ apiResponse.is_safe = Some(TRUE)
           /\ apiResponse.risk_level = Some("UNKNOWN")

\* C29: a POST /x402/generate-header whose private_key, pay_to, asset or
\* amount is missing or empty is answered with status 400 and detail
\* "Missing required fields", and with no payment header.
C29_MissingFieldIs400 ==
    (/\ apiRequest.endpoint = "/x402/generate-header"
     /\ apiRequest.imports
     /\ ~AllRequired(apiRequest.body[1]))
        => /\ apiResponse.status = 400
           /\ apiResponse.detail =
                Some("Missing required fields: private_key, pay_to, asset, amount")
           /\ apiResponse.payment_header = None

====
